---------------------------- MODULE Spec2Model ----------------------------
(***************************************************************************)
(* Media synchronisation and publish pipeline of casey-editor-desktop      *)
(* (electron/server/media-sync.ts): findMediaReferences, uploadMedia,      *)
(* syncMedia, rewriteUrls, getUrlMappings and publish, over a content      *)
(* corpus, a media library, the persisted upload cache, the remote asset   *)
(* store and the git work tree.                                            *)
(*                                                                         *)
(* Text is modelled as a sequence of tokens.  A token is a literal piece   *)
(* of a document ("![](" stands for "![alt](", "/media/" for itself, "a"   *)
(* and ".jpg" for pieces of a file name, "u1" for a remote URL).  A local  *)
(* media path is the sequence of its tokens, so that one path can be a     *)
(* proper prefix of another and substring search and replacement are       *)
(* computed, not assumed.                                                  *)
(***************************************************************************)
EXTENDS Integers, Sequences, FiniteSets, TLC

\* ------------------------------------------------------------------ bounds

\* Operations (syncMedia, rewriteUrls, getUrlMappings, publish) invoked in one
\* behaviour.
MaxOps == 2

\* Changes the author makes to the media library in one behaviour.
MaxEdits == 1

\* Commits the local branch can be ahead of its upstream.
MaxAhead == 2

\* Uploads the asset store accepts in one behaviour.
MaxUploads == 6

\* ------------------------------------------------------------ text helpers

\* Whether pat occurs in s at position i.
OccursAt(s, pat, i) ==
    /\ i >= 1
    /\ i + Len(pat) - 1 <= Len(s)
    /\ \A k \in 1..Len(pat) : s[i + k - 1] = pat[k]

\* String.prototype.includes
Includes(s, pat) == \E i \in 1..(Len(s) + 1) : OccursAt(s, pat, i)

\* s.split(pat).join(rep): every occurrence of pat, found left to right
\* without overlap, is replaced by rep.  pat is never empty here.
RECURSIVE SplitJoin(_, _, _)
SplitJoin(s, pat, rep) ==
    IF Len(s) = 0 THEN << >>
    ELSE IF OccursAt(s, pat, 1)
         THEN rep \o SplitJoin(SubSeq(s, Len(pat) + 1, Len(s)), pat, rep)
         ELSE << s[1] >> \o SplitJoin(Tail(s), pat, rep)

\* Number of non-overlapping occurrences of pat in s, left to right.
RECURSIVE Occurrences(_, _)
Occurrences(s, pat) ==
    IF Len(s) = 0 THEN 0
    ELSE IF OccursAt(s, pat, 1)
         THEN 1 + Occurrences(SubSeq(s, Len(pat) + 1, Len(s)), pat)
         ELSE Occurrences(Tail(s), pat)

\* The elements of a sequence, and a sequence without repeated elements
\* (first occurrence kept): the insertion order of a JavaScript Set.
Range(s) == { s[k] : k \in 1..Len(s) }

\* Mutant of Dedup: every capture is kept.
DedupNone(s) == s

RECURSIVE Dedup(_)
Dedup(s) ==
    IF Len(s) = 0 THEN << >>
    ELSE LET front == Dedup(SubSeq(s, 1, Len(s) - 1))
             last  == s[Len(s)]
         IN  IF last \in Range(front) THEN front ELSE Append(front, last)

RECURSIVE Flatten(_)
Flatten(ss) == IF Len(ss) = 0 THEN << >> ELSE ss[1] \o Flatten(Tail(ss))

\* ------------------------------------------------------------------ tokens

MEDIA == << "/media/" >>
RELMEDIA == << "../../../Media/" >>
MDIMG == "![]("
FRONTIMG == "image: "
SRCATTR == "src='"
VIDEOTAG == "<video "
CLOSEPAREN == ")"
QUOTE == "'"
SPACE == " "
GT == ">"

\* Local media paths of the examples: a.jpg, b.jpg and a.jpg.webp, whose
\* reference form "/media/a.jpg.webp" starts with that of a.jpg.
PathA == << "a", ".jpg" >>
PathB == << "b", ".jpg" >>
PathAW == << "a", ".jpg", ".webp" >>
Paths == { PathA, PathB, PathAW }

\* A second media library: a.jpg and a.png, two images whose names differ in
\* the extension only.
PathAPng == << "a", ".png" >>
MixedPaths == { PathA, PathAPng }

\* URLs the asset store hands out: the n-th upload it accepts gets the n-th
\* (a Cloudinary URL carries the version of the upload).
UrlNames == << "u1", "u2", "u3", "u4", "u5", "u6", "u7", "u8", "u9" >>


\* ----------------------------------------------------------------- corpus

\* A corpus is the listing of src/content: a sequence of entries
\* [type, file, md, content], where md says whether the name ends in ".md".
\* The entries of one category, in listing order, are what readdirSync
\* returns for it; a category without entries stands for a missing directory.
contentTypes == << "posts", "projects", "pieces", "notes" >>

\* Indexes (into the corpus) of the .md documents, in the order both
\* findMediaReferences and rewriteUrls walk them.
MdFilesOf(corpus, type) ==
    SelectSeq([k \in 1..Len(corpus) |-> k],
              LAMBDA k : corpus[k].type = type /\ corpus[k].md)

MdFiles(corpus) ==
    Flatten([t \in 1..Len(contentTypes) |-> MdFilesOf(corpus, contentTypes[t])])

\* ---------------------------------------------------------------- scanner

\* The five regular expressions of findMediaReferences.  kind "paren": the
\* capture [^)]+ must be followed by ")"; kind "attr": the capture runs to
\* the first stop token or to the end; kind "video": "<video", any tokens but
\* ">", then the src attribute.
patterns ==
    << [kind |-> "paren", openers |-> { << MDIMG >> \o MEDIA },
        stop |-> { CLOSEPAREN }],
       [kind |-> "paren", openers |-> { << MDIMG >> \o RELMEDIA },
        stop |-> { CLOSEPAREN }],
       [kind |-> "attr",
        openers |-> { << FRONTIMG >> \o MEDIA, << FRONTIMG, QUOTE >> \o MEDIA },
        stop |-> { QUOTE, SPACE }],
       [kind |-> "attr", openers |-> { << SRCATTR >> \o MEDIA },
        stop |-> { QUOTE }],
       [kind |-> "video", openers |-> { << SRCATTR >> \o MEDIA },
        stop |-> { QUOTE }] >>

\* Length of the longest run of tokens outside stop that starts at j.
RECURSIVE RunLen(_, _, _)
RunLen(doc, j, stop) ==
    IF j > Len(doc) \/ doc[j] \in stop THEN 0
    ELSE 1 + RunLen(doc, j + 1, stop)

NoMatch == [ok |-> FALSE, path |-> << >>, next |-> 0]

\* An opener at i followed by a capture of at least one token.
CaptureAt(doc, i, pat, needClose) ==
    IF \E o \in pat.openers : OccursAt(doc, o, i)
    THEN LET o == CHOOSE o \in pat.openers : OccursAt(doc, o, i)
             j == i + Len(o)
             n == RunLen(doc, j, pat.stop)
         IN  IF n >= 1 /\ (~needClose \/ (j + n <= Len(doc) /\ doc[j + n] = CLOSEPAREN))
             THEN [ok |-> TRUE, path |-> SubSeq(doc, j, j + n - 1),
                   next |-> IF needClose THEN j + n + 1 ELSE j + n]
             ELSE NoMatch
    ELSE NoMatch

\* The match of one pattern that starts at i, if any.
MatchAt(doc, i, pat) ==
    CASE pat.kind = "paren" -> CaptureAt(doc, i, pat, TRUE)
      [] pat.kind = "attr"  -> CaptureAt(doc, i, pat, FALSE)
      [] pat.kind = "video" ->
            IF i <= Len(doc) /\ doc[i] = VIDEOTAG
            THEN LET reach == i + RunLen(doc, i + 1, { GT })
                     at == { j \in (i + 1)..reach : CaptureAt(doc, j, pat, FALSE).ok }
                 IN  \* [^>]* is greedy: the last src attribute in reach wins
                     IF at = {} THEN NoMatch
                     ELSE CaptureAt(doc, CHOOSE j \in at : \A k \in at : k <= j,
                                    pat, FALSE)
            ELSE NoMatch

\* regex.exec in a loop: the matches of one pattern from i on, left to right.
RECURSIVE ScanPattern(_, _, _)
ScanPattern(doc, i, pat) ==
    IF i > Len(doc) THEN << >>
    ELSE LET m == MatchAt(doc, i, pat)
         IN  IF m.ok THEN << m.path >> \o ScanPattern(doc, m.next, pat)
             ELSE ScanPattern(doc, i + 1, pat)

\* The captures of one document, pattern by pattern.
RefsOfDoc(doc) ==
    Flatten([k \in 1..Len(patterns) |-> ScanPattern(doc, 1, patterns[k])])

\* findMediaReferences: Array.from of the Set of captures.
findMediaReferences(corpus) ==
    LET md == MdFiles(corpus)
    IN  Dedup(Flatten([k \in 1..Len(md) |-> RefsOfDoc(corpus[md[k]].content)]))

\* ------------------------------------------------------------------ cache

\* A cache is the object JSON.parse returns: its entries in insertion order,
\* each [path, hash, url, public_id] (uploaded_at, a wall-clock time that
\* nothing reads, is left out).
HasEntry(cache, path) == \E k \in 1..Len(cache) : cache[k].path = path

EntryOf(cache, path) == cache[CHOOSE k \in 1..Len(cache) : cache[k].path = path]

\* Mutant of PutEntry: an entry that exists is kept as it is.
PutEntryIfAbsent(cache, entry) ==
    IF HasEntry(cache, entry.path) THEN cache ELSE Append(cache, entry)

\* Mutant of PutEntry: the new entry replaces the whole mapping.
PutEntryAlone(cache, entry) == << entry >>

\* cache[localPath] = entry: an existing key keeps its place, a new key goes
\* last.
PutEntry(cache, entry) ==
    IF HasEntry(cache, entry.path)
    THEN [k \in 1..Len(cache) |->
            IF cache[k].path = entry.path THEN entry ELSE cache[k]]
    ELSE Append(cache, entry)

\* The persisted cache file is absent, unparseable ("corrupt"), holds a
\* mapping ("map"), or holds the JSON text null ("null").
AbsentFile == [kind |-> "absent", entries |-> << >>]

CorruptFile == [kind |-> "corrupt", entries |-> << >>]

NullFile == [kind |-> "null", entries |-> << >>]

\* JSON.parse of the file returns null, and loadCache returns it (line 58).
ParsesToNull(file) == file.kind = "null"

\* The entries of the object loadCache returns: those of the file when it
\* holds a mapping, none for {} (lines 60-63) and none for null.
loadCache(file) == IF file.kind = "map" THEN file.entries ELSE << >>

saveCache(cache) == [kind |-> "map", entries |-> cache]

\* ------------------------------------------------------------ media library

\* files[path] is 0 for a file that does not exist, else the bytes of the
\* file, a number standing for one content.
NoFile == 0

\* Contents a media file can have.
Contents == { 1, 2 }

\* files[path] of a file, or a directory, that exists and that readFileSync
\* cannot read.
Unreadable == 3

FileAt(lib, path) == IF path \in DOMAIN lib THEN lib[path] ELSE NoFile

\* readFileSync(path) returns the bytes instead of throwing.
Readable(lib, path) == FileAt(lib, path) \in Contents

existsSync(lib, path) == FileAt(lib, path) # NoFile

\* md5 of the bytes: different contents of the model have different digests.
getFileHash(lib, path) == << "md5", FileAt(lib, path) >>

\* localPath.replace(/\.[^.]+$/, ''): the last extension is dropped.
IsExt(tok) == tok \in { ".jpg", ".png", ".webp", ".mp4", ".webm", ".mov" }

StripExt(path) ==
    IF Len(path) >= 1 /\ IsExt(path[Len(path)])
    THEN SubSeq(path, 1, Len(path) - 1)
    ELSE path

PublicId(path) == << "casey-site/" >> \o StripExt(path)

VIDEO_EXTENSIONS == { ".mp4", ".webm", ".mov" }

isVideoFile(path) == Len(path) >= 1 /\ path[Len(path)] \in VIDEO_EXTENSIONS

\* --------------------------------------------------------------- rewriter

\* The loop over Object.entries(cache) for one document, from entry k on:
\* the text after the replacements and the number of entries that matched.
RECURSIVE RewriteFrom(_, _, _)
RewriteFrom(content, cache, k) ==
    IF k > Len(cache) THEN [content |-> content, fileChanges |-> 0]
    ELSE LET mediaPath == MEDIA \o cache[k].path
         IN  IF Includes(content, mediaPath)
             THEN LET rest == RewriteFrom(
                                 SplitJoin(content, mediaPath, << cache[k].url >>),
                                 cache, k + 1)
                  IN  [content |-> rest.content,
                       fileChanges |-> rest.fileChanges + 1]
             ELSE RewriteFrom(content, cache, k + 1)

RewriteDoc(content, cache) == RewriteFrom(content, cache, 1)

RECURSIVE SumSeq(_)
SumSeq(s) == IF Len(s) = 0 THEN 0 ELSE s[1] + SumSeq(Tail(s))

\* Mutant of RewriteResultsOf: every scanned document is listed in changes
\* and counted as modified.
RewriteResultsCountAll(corpus, cache) ==
    LET md == MdFiles(corpus)
        n(k) == RewriteDoc(corpus[md[k]].content, cache).fileChanges
    IN  [filesScanned |-> Len(md),
         filesModified |-> Len(md),
         urlsReplaced |-> SumSeq([k \in 1..Len(md) |-> n(k)]),
         changes |-> [j \in 1..Len(md) |->
                        [file |-> << corpus[md[j]].type, corpus[md[j]].file >>,
                         replacements |-> n(j)]]]

\* The RewriteResults of one pass over the corpus.
RewriteResultsOf(corpus, cache) ==
    LET md == MdFiles(corpus)
        n(k) == RewriteDoc(corpus[md[k]].content, cache).fileChanges
        hit == SelectSeq([k \in 1..Len(md) |-> k], LAMBDA k : n(k) > 0)
    IN  [filesScanned |-> Len(md),
         filesModified |-> Len(hit),
         urlsReplaced |-> SumSeq([k \in 1..Len(md) |-> n(k)]),
         changes |-> [j \in 1..Len(hit) |->
                        [file |-> << corpus[md[hit[j]]].type, corpus[md[hit[j]]].file >>,
                         replacements |-> n(hit[j])]]]

\* The corpus after one pass: writeFileSync for the documents that changed,
\* unless dryRun.  Only the .md files of the content categories are read.
RewrittenCorpus(corpus, cache, dryRun) ==
    [k \in 1..Len(corpus) |->
        IF ~dryRun /\ k \in Range(MdFiles(corpus))
           /\ RewriteDoc(corpus[k].content, cache).fileChanges > 0
        THEN [corpus[k] EXCEPT !.content = RewriteDoc(corpus[k].content, cache).content]
        ELSE corpus[k]]

\* getUrlMappings: "/media/<path>" -> url, per cache entry.
UrlMappingsOf(cache) ==
    [k \in 1..Len(cache) |-> [from |-> MEDIA \o cache[k].path, to |-> cache[k].url]]

\* ------------------------------------------------------------------ state

VARIABLES
    docs,       \* the content corpus (src/content)
    files,      \* the media library: path -> bytes, NoFile when absent
    cacheFile,  \* .upload-cache.json
    ahead,      \* git: commits of HEAD that its upstream does not have
    nUploads,   \* asset store: uploads accepted so far
    run,        \* the invocation in progress or just returned
    nOps,       \* operations invoked so far
    nEdits,     \* events of the environment so far: changes of the media
                \* library and terminations
    parked      \* a second invocation, suspended at an await while run is
                \* the one the event loop executes; IdleRun when there is none

vars == << docs, files, cacheFile, ahead, nUploads, run, nOps, nEdits, parked >>

NoResults == [scanned |-> 0, uploaded |-> 0, skipped |-> 0, failed |-> 0,
              errors |-> << >>, uploads |-> << >>]

NoRewrite == [filesScanned |-> 0, filesModified |-> 0, urlsReplaced |-> 0,
              changes |-> << >>]

NoBefore == [op |-> "none", dryRun |-> FALSE, force |-> FALSE,
             references |-> << >>, status |-> << >>,
             results |-> NoResults, rewriteResults |-> NoRewrite]

\* An invocation.  pc is its place in the code; cache, references, results,
\* rewriteResults, hasNewCommit, gitResult and error are the locals of
\* syncMedia and publish (aheadCount is publish's local ahead).  status[k] is the line logged for references[k]
\* (MISSING, CACHED, WOULD UPLOAD, DONE, or FAILED for "Failed to upload"),
\* uploaderCalls the paths uploadMedia was called with, gitCommands the
\* commands handed to execAsync, atCall the corpus and the cache file as
\* they were when the operation was called, and before what the previous
\* operation did when nothing changed since it returned.  cacheNull says
\* that the local cache is null, answers[k] is what uploadMedia returned for
\* uploaderCalls[k], storeCalls[k] whether it called the asset store, and
\* saves the number of saveCache calls; edited says that a media file was
\* changed while the operation ran.  pc is "threw" when the operation
\* ended with an exception (error is its name) and "killed" when the process
\* was terminated during it.
IdleRun ==
    [op |-> "none", pc |-> "idle", dryRun |-> FALSE, force |-> FALSE,
     atCall |-> [docs |-> << >>, cacheFile |-> AbsentFile], cache |-> << >>,
     cacheNull |-> FALSE,
     references |-> << >>, i |-> 1, hash |-> << >>,
     status |-> << >>, uploaderCalls |-> << >>,
     answers |-> << >>, storeCalls |-> << >>, saves |-> 0, edited |-> FALSE,
     results |-> NoResults, rewriteResults |-> NoRewrite, mappings |-> << >>,
     gitCommands |-> << >>, hasNewCommit |-> FALSE, aheadCount |-> 0,
     gitResult |-> "none",
     error |-> "none", before |-> NoBefore]

\* Corpora of the examples.
DocTwoA == << MDIMG, "/media/", "a", ".jpg", CLOSEPAREN, SPACE,
              MDIMG, "/media/", "a", ".jpg", CLOSEPAREN, SPACE,
              SRCATTR, "/media/", "b", ".jpg", QUOTE >>
DocWebp == << FRONTIMG, "/media/", "a", ".jpg", ".webp", SPACE, "text" >>
DocPlain == << "text", SPACE, "text" >>

Corpora ==
    { << [type |-> "notes", file |-> "two", md |-> TRUE, content |-> DocWebp],
         [type |-> "posts", file |-> "one", md |-> TRUE, content |-> DocTwoA],
         [type |-> "posts", file |-> "plain", md |-> TRUE, content |-> DocPlain] >> }

\* The cache file at start: none yet, one that cannot be parsed, one that
\* holds null, or the one an earlier session left after it uploaded a.jpg
\* with bytes 1.
InitialCacheFiles ==
    { AbsentFile, CorruptFile, NullFile,
      saveCache(<< [path |-> PathA, hash |-> << "md5", 1 >>, url |-> "u0",
                    public_id |-> PublicId(PathA)] >>) }

Init ==
    /\ docs \in Corpora
    /\ files \in [Paths -> { NoFile } \cup { 1 }]
    /\ cacheFile \in InitialCacheFiles
    /\ ahead = 0
    /\ nUploads = 0
    /\ run = IdleRun
    /\ nOps = 0
    /\ nEdits = 0
    /\ parked = IdleRun

\* ------------------------------------------------------------- invocation

Returned == run.pc \in { "idle", "done", "threw", "killed" }

\* An exception leaves the operation (the promise rejects).
Throw(r, name) == [r EXCEPT !.pc = "threw", !.error = name]

\* What the next operation remembers of the one that has just returned.
Summary(r) ==
    IF r.pc = "done" /\ ~r.edited
    THEN [op |-> r.op, dryRun |-> r.dryRun, force |-> r.force,
          references |-> r.references, status |-> r.status,
          results |-> r.results, rewriteResults |-> r.rewriteResults]
    ELSE NoBefore

\* A call of syncMedia: loadCache and findMediaReferences (lines 154-169).
StartSync(op, dryRun, force) ==
    LET references == findMediaReferences(docs)
    IN  [IdleRun EXCEPT !.op = op, !.pc = "sync", !.dryRun = dryRun,
                        !.force = force,
                        !.atCall = [docs |-> docs, cacheFile |-> cacheFile],
                        !.cache = loadCache(cacheFile),
                        !.cacheNull = ParsesToNull(cacheFile),
                        !.references = references,
                        !.results = [NoResults EXCEPT !.scanned = Len(references)],
                        !.before = Summary(run)]

CallSyncMedia ==
    /\ Returned
    /\ nOps < MaxOps
    /\ \E dryRun \in BOOLEAN, force \in BOOLEAN :
          run' = StartSync("syncMedia", dryRun, force)
    /\ nOps' = nOps + 1
    /\ UNCHANGED << docs, files, cacheFile, ahead, nUploads, nEdits, parked >>

\* publish calls syncMedia({ dryRun }) (line 297).
CallPublish ==
    /\ Returned
    /\ nOps < MaxOps
    /\ \E dryRun \in BOOLEAN : run' = StartSync("publish", dryRun, FALSE)
    /\ nOps' = nOps + 1
    /\ UNCHANGED << docs, files, cacheFile, ahead, nUploads, nEdits, parked >>

\* -------------------------------------------------------------- syncMedia

\* Mutant of IsCached: the comparison of the hashes is inverted.
IsCachedWhenHashDiffers(cache, path, hash, force) ==
    ~force /\ HasEntry(cache, path) /\ EntryOf(cache, path).hash # hash

\* Mutant of IsCached: force is not consulted.
IsCachedDespiteForce(cache, path, hash, force) ==
    HasEntry(cache, path) /\ EntryOf(cache, path).hash = hash

\* The cache check of line 184.
IsCached(cache, path, hash, force) ==
    ~force /\ HasEntry(cache, path) /\ EntryOf(cache, path).hash = hash

\* One pass of the loop body up to the call of uploadMedia (lines 171-197).
\* readFileSync in getFileHash throws for a file that cannot be read, and
\* cache[localPath] throws for a null cache.
SyncReference ==
    /\ run.pc = "sync"
    /\ run.i <= Len(run.references)
    /\ LET localPath == run.references[run.i]
           hash == getFileHash(files, localPath)
           res == run.results
       IN  IF ~existsSync(files, localPath)
           THEN run' = [run EXCEPT
                   !.results = [res EXCEPT
                       !.failed = @ + 1,
                       !.errors = Append(@, << "File not found", localPath >>)],
                   !.status = Append(@, "MISSING"),
                   !.i = @ + 1]
           ELSE IF ~Readable(files, localPath)
           THEN run' = Throw(run, "read failed")
           ELSE IF ~run.force /\ run.cacheNull
           THEN run' = Throw(run, "TypeError")
           ELSE IF IsCached(run.cache, localPath, hash, run.force)
           THEN run' = [run EXCEPT
                   !.results = [res EXCEPT !.skipped = @ + 1],
                   !.status = Append(@, "CACHED"),
                   !.i = @ + 1]
           ELSE IF run.dryRun
           THEN run' = [run EXCEPT
                   !.results = [res EXCEPT !.uploaded = @ + 1],
                   !.status = Append(@, "WOULD UPLOAD"),
                   !.i = @ + 1]
           ELSE run' = [run EXCEPT
                   !.pc = "uploading",
                   !.hash = hash,
                   !.uploaderCalls = Append(@, localPath)]
    /\ UNCHANGED << docs, files, cacheFile, ahead, nUploads, nOps, nEdits, parked >>

\* What uploadMedia resolves to (lines 115-152): the asset store's answer
\* for a file that exists, or null.
\* null carries no reason.
NullAnswer == [ok |-> FALSE, url |-> "none", public_id |-> << >>, bytes |-> 0,
               reason |-> "none"]

\* uploadMedia hands the file to the asset store (line 141) unless the file
\* is missing (lines 118-121).
StoreCalled(lib, localPath) == existsSync(lib, localPath)

\* The store answers with an error (also when the file cannot be read), or
\* accepts the bytes the file has at that moment.
UploadAnswers(lib, localPath, accepted) ==
    IF ~existsSync(lib, localPath) THEN { NullAnswer }
    ELSE IF ~Readable(lib, localPath) THEN { NullAnswer }
    ELSE { NullAnswer }
         \cup { [ok |-> TRUE, url |-> UrlNames[n], public_id |-> PublicId(localPath),
                 bytes |-> FileAt(lib, localPath), reason |-> "none"] :
                 n \in { accepted + 1 } \cap 1..MaxUploads }

\* The entry written on a successful upload (lines 200-205).
NewEntry(localPath, hash, result) ==
    [path |-> localPath, hash |-> hash, url |-> result.url,
     public_id |-> result.public_id]

\* Mutant of AfterUpload: the cache entry is written before the result is
\* looked at, so a failed upload leaves an entry too.
AfterUploadCachedFirst(r, result) ==
    LET localPath == r.references[r.i]
        res == r.results
        cached == PutEntry(r.cache, NewEntry(localPath, r.hash, result))
    IN  IF result.ok
        THEN [r EXCEPT
                !.cache = cached,
                !.results = [res EXCEPT
                    !.uploaded = @ + 1,
                    !.uploads = Append(@, [local |-> localPath,
                                           remote |-> result.url,
                                           size |-> result.bytes])],
                !.status = Append(@, "DONE"),
                !.pc = "sync",
                !.i = @ + 1]
        ELSE [r EXCEPT
                !.cache = cached,
                !.results = [res EXCEPT
                    !.failed = @ + 1,
                    !.errors = Append(@, << "Upload failed", localPath >>)],
                !.status = Append(@, "FAILED"),
                !.pc = "sync",
                !.i = @ + 1]

\* Mutant of AfterUpload: a failed upload pushes its error string and is not
\* counted in failed.
AfterUploadFailureUncounted(r, result) ==
    LET localPath == r.references[r.i]
        res == r.results
    IN  IF result.ok /\ r.cacheNull
        THEN Throw(r, "TypeError")
        ELSE IF result.ok
        THEN [r EXCEPT
                !.cache = PutEntry(@, NewEntry(localPath, r.hash, result)),
                !.results = [res EXCEPT
                    !.uploaded = @ + 1,
                    !.uploads = Append(@, [local |-> localPath,
                                           remote |-> result.url,
                                           size |-> result.bytes])],
                !.status = Append(@, "DONE"),
                !.pc = "sync",
                !.i = @ + 1]
        ELSE [r EXCEPT
                !.results = [res EXCEPT
                    !.errors = Append(@, << "Upload failed", localPath >>)],
                !.status = Append(@, "FAILED"),
                !.pc = "sync",
                !.i = @ + 1]

\* Mutant of AfterUpload: uploaded is incremented before the result is looked
\* at, so a failed upload is counted as uploaded too.
AfterUploadCountedFirst(r, result) ==
    LET localPath == r.references[r.i]
        res == [r.results EXCEPT !.uploaded = @ + 1]
    IN  IF result.ok
        THEN [r EXCEPT
                !.cache = PutEntry(@, NewEntry(localPath, r.hash, result)),
                !.results = [res EXCEPT
                    !.uploads = Append(@, [local |-> localPath,
                                           remote |-> result.url,
                                           size |-> result.bytes])],
                !.status = Append(@, "DONE"),
                !.pc = "sync",
                !.i = @ + 1]
        ELSE [r EXCEPT
                !.results = [res EXCEPT
                    !.failed = @ + 1,
                    !.errors = Append(@, << "Upload failed", localPath >>)],
                !.status = Append(@, "FAILED"),
                !.pc = "sync",
                !.i = @ + 1]

\* Mutant of AfterUpload: a successful upload is logged and counted, and its
\* entry is not put into the cache.
AfterUploadNotApplied(r, result) ==
    LET localPath == r.references[r.i]
        res == r.results
    IN  IF result.ok /\ r.cacheNull
        THEN Throw(r, "TypeError")
        ELSE IF result.ok
        THEN [r EXCEPT
                !.results = [res EXCEPT
                    !.uploaded = @ + 1,
                    !.uploads = Append(@, [local |-> localPath,
                                           remote |-> result.url,
                                           size |-> result.bytes])],
                !.status = Append(@, "DONE"),
                !.pc = "sync",
                !.i = @ + 1]
        ELSE [r EXCEPT
                !.results = [res EXCEPT
                    !.failed = @ + 1,
                    !.errors = Append(@, << "Upload failed", localPath >>)],
                !.status = Append(@, "FAILED"),
                !.pc = "sync",
                !.i = @ + 1]

\* Mutant of AfterUpload: a failed upload empties the cache of the run.
AfterUploadFailureDropsCache(r, result) ==
    LET localPath == r.references[r.i]
        res == r.results
    IN  IF result.ok /\ r.cacheNull
        THEN Throw(r, "TypeError")
        ELSE IF result.ok
        THEN [r EXCEPT
                !.cache = PutEntry(@, NewEntry(localPath, r.hash, result)),
                !.results = [res EXCEPT
                    !.uploaded = @ + 1,
                    !.uploads = Append(@, [local |-> localPath,
                                           remote |-> result.url,
                                           size |-> result.bytes])],
                !.status = Append(@, "DONE"),
                !.pc = "sync",
                !.i = @ + 1]
        ELSE [r EXCEPT
                !.cache = << >>,
                !.results = [res EXCEPT
                    !.failed = @ + 1,
                    !.errors = Append(@, << "Upload failed", localPath >>)],
                !.status = Append(@, "FAILED"),
                !.pc = "sync",
                !.i = @ + 1]

\* The locals after the await of line 197 has returned result (lines
\* 199-216); the assignment of line 200 throws for a null cache.
AfterUpload(r, result) ==
    LET localPath == r.references[r.i]
        res == r.results
    IN  IF result.ok /\ r.cacheNull
        THEN Throw(r, "TypeError")
        ELSE IF result.ok
        THEN [r EXCEPT
                !.cache = PutEntry(@, NewEntry(localPath, r.hash, result)),
                !.results = [res EXCEPT
                    !.uploaded = @ + 1,
                    !.uploads = Append(@, [local |-> localPath,
                                           remote |-> result.url,
                                           size |-> result.bytes])],
                !.status = Append(@, "DONE"),
                !.pc = "sync",
                !.i = @ + 1]
        ELSE [r EXCEPT
                !.results = [res EXCEPT
                    !.failed = @ + 1,
                    !.errors = Append(@, << "Upload failed", localPath >>)],
                !.status = Append(@, "FAILED"),
                !.pc = "sync",
                !.i = @ + 1]

\* Mutant of CacheFileAfterUpload: the cache is saved after every upload.
CacheFileSavedPerUpload(file, r) ==
    IF r.pc = "threw" THEN file ELSE saveCache(r.cache)

\* The cache file when the loop body ends: the loop does not call saveCache
\* (lines 171-217).
CacheFileAfterUpload(file, r) == file

\* The await of line 197 returns and the loop body ends.
UploadReturns ==
    /\ run.pc = "uploading"
    /\ \E result \in UploadAnswers(files, run.references[run.i], nUploads) :
          /\ nUploads' = IF result.ok THEN nUploads + 1 ELSE nUploads
          /\ run' = [AfterUpload(run, result) EXCEPT
                        !.answers = Append(@, result),
                        !.storeCalls =
                            Append(@, StoreCalled(files, run.references[run.i]))]
          /\ cacheFile' = CacheFileAfterUpload(cacheFile, AfterUpload(run, result))
    /\ UNCHANGED << docs, files, ahead, nOps, nEdits, parked >>

\* Mutant of CacheFileAfterSync: the entries of the file that the cache of
\* the run lacks are kept.
CacheFileMergedOnSave(file, cache, dryRun) ==
    IF dryRun THEN file
    ELSE saveCache(cache \o SelectSeq(loadCache(file),
                                      LAMBDA e : ~HasEntry(cache, e.path)))

\* Mutant of CacheFileAfterSync: the cache is saved in a dry run too.
CacheFileSavedAlways(file, cache, dryRun) == saveCache(cache)

\* The cache file after the loop (lines 219-221).
CacheFileAfterSync(file, cache, dryRun) ==
    IF dryRun THEN file ELSE saveCache(cache)

\* After the loop: saveCache unless dryRun, and return (lines 219-223); in
\* publish the rewrite stage is next.  JSON.stringify(null) is the text
\* null, which the file of a null cache holds already.
SyncReturns ==
    /\ run.pc = "sync"
    /\ run.i > Len(run.references)
    /\ cacheFile' = IF run.cacheNull
                    THEN cacheFile
                    ELSE CacheFileAfterSync(cacheFile, run.cache, run.dryRun)
    /\ run' = [run EXCEPT
                  !.pc = IF run.op = "publish" THEN "rewrite" ELSE "done",
                  !.saves = IF run.dryRun THEN @ ELSE @ + 1]
    /\ UNCHANGED << docs, files, ahead, nUploads, nOps, nEdits, parked >>

\* ---------------------------------------------------- rewriteUrls, mappings

\* Object.entries(cache) of line 252 throws for a null cache, at the first
\* .md document.
RewriteThrows(corpus, file) == ParsesToNull(file) /\ Len(MdFiles(corpus)) > 0

\* rewriteUrls is synchronous: one step (lines 226-274).
CallRewriteUrls ==
    /\ Returned
    /\ nOps < MaxOps
    /\ \E dryRun \in BOOLEAN :
          LET cache == loadCache(cacheFile)
              called == [IdleRun EXCEPT
                            !.op = "rewriteUrls", !.pc = "done",
                            !.dryRun = dryRun,
                            !.atCall = [docs |-> docs, cacheFile |-> cacheFile],
                            !.cache = cache,
                            !.cacheNull = ParsesToNull(cacheFile),
                            !.before = Summary(run)]
          IN  IF RewriteThrows(docs, cacheFile)
              THEN /\ run' = Throw(called, "TypeError")
                   /\ docs' = docs
              ELSE /\ run' = [called EXCEPT
                                 !.rewriteResults = RewriteResultsOf(docs, cache)]
                   /\ docs' = RewrittenCorpus(docs, cache, dryRun)
    /\ nOps' = nOps + 1
    /\ UNCHANGED << files, cacheFile, ahead, nUploads, nEdits, parked >>

\* getUrlMappings (lines 276-283); Object.entries(cache) of line 279 throws
\* for a null cache.
CallGetUrlMappings ==
    /\ Returned
    /\ nOps < MaxOps
    /\ LET cache == loadCache(cacheFile)
           called == [IdleRun EXCEPT
                         !.op = "getUrlMappings", !.pc = "done",
                         !.atCall = [docs |-> docs, cacheFile |-> cacheFile],
                         !.cache = cache,
                         !.cacheNull = ParsesToNull(cacheFile),
                         !.before = Summary(run)]
       IN  run' = IF ParsesToNull(cacheFile)
                  THEN Throw(called, "TypeError")
                  ELSE [called EXCEPT !.mappings = UrlMappingsOf(cache)]
    /\ nOps' = nOps + 1
    /\ UNCHANGED << docs, files, cacheFile, ahead, nUploads, nEdits, parked >>

\* ---------------------------------------------------------------- publish

\* Mutant of PublishRewrites: publish gives up when the sync stage reported
\* a failure.
PublishRewritesUnlessFailed ==
    /\ run.pc = "rewrite"
    /\ LET cache == loadCache(cacheFile)
       IN  IF run.results.failed > 0
           THEN /\ run' = [run EXCEPT !.pc = "done", !.gitResult = "error",
                                      !.error = "sync failed"]
                /\ docs' = docs
           ELSE /\ run' = [run EXCEPT
                              !.rewriteResults = RewriteResultsOf(docs, cache),
                              !.pc = IF run.dryRun THEN "done" ELSE "git add",
                              !.gitResult = IF run.dryRun THEN "null" ELSE @]
                /\ docs' = RewrittenCorpus(docs, cache, run.dryRun)
    /\ UNCHANGED << files, cacheFile, ahead, nUploads, nOps, nEdits, parked >>

\* Mutant of PublishRewrites: the dry-run return of lines 305-308 is missing.
PublishRewritesThenCommits ==
    /\ run.pc = "rewrite"
    /\ LET cache == loadCache(cacheFile)
       IN  /\ run' = [run EXCEPT
                         !.rewriteResults = RewriteResultsOf(docs, cache),
                         !.pc = "git add"]
           /\ docs' = RewrittenCorpus(docs, cache, run.dryRun)
    /\ UNCHANGED << files, cacheFile, ahead, nUploads, nOps, nEdits, parked >>

\* Mutant of PublishRewrites: the rewrite stage works from the cache file as
\* it was when publish was called.
PublishRewritesFromOldCache ==
    /\ run.pc = "rewrite"
    /\ LET cache == loadCache(run.atCall.cacheFile)
       IN  IF RewriteThrows(docs, cacheFile)
           THEN /\ run' = Throw(run, "TypeError")
                /\ docs' = docs
           ELSE /\ run' = [run EXCEPT
                              !.rewriteResults = RewriteResultsOf(docs, cache),
                              !.pc = IF run.dryRun THEN "done" ELSE "git add",
                              !.gitResult = IF run.dryRun THEN "null" ELSE @]
                /\ docs' = RewrittenCorpus(docs, cache, run.dryRun)
    /\ UNCHANGED << files, cacheFile, ahead, nUploads, nOps, nEdits, parked >>

\* Step 2 of publish: rewriteUrls({ dryRun }), then the dry-run return
\* (lines 300-308).  An exception of rewriteUrls, like one of syncMedia,
\* leaves publish: both calls are outside its try blocks.
PublishRewrites ==
    /\ run.pc = "rewrite"
    /\ LET cache == loadCache(cacheFile)
       IN  IF RewriteThrows(docs, cacheFile)
           THEN /\ run' = Throw(run, "TypeError")
                /\ docs' = docs
           ELSE /\ run' = [run EXCEPT
                              !.rewriteResults = RewriteResultsOf(docs, cache),
                              !.pc = IF run.dryRun THEN "done" ELSE "git add",
                              !.gitResult = IF run.dryRun THEN "null" ELSE @]
                /\ docs' = RewrittenCorpus(docs, cache, run.dryRun)
    /\ UNCHANGED << files, cacheFile, ahead, nUploads, nOps, nEdits, parked >>

\* Mutant of GitError: the failure leaves publish as an exception.
GitErrorRejects(r, command, message) ==
    [r EXCEPT !.gitCommands = Append(@, command), !.pc = "threw",
              !.error = message]

\* Mutant of GitError: after a failure publish starts over with its sync
\* stage.
GitErrorStartsOver(r, command, message) ==
    [r EXCEPT !.gitCommands = Append(@, command), !.pc = "sync", !.i = 1,
              !.status = << >>, !.error = message]

\* The return of lines 349-352 and 345-348.
GitError(r, command, message) ==
    [r EXCEPT !.gitCommands = Append(@, command), !.pc = "done",
              !.gitResult = "error", !.error = message]

\* git add -A (line 315).
GitAdd ==
    /\ run.pc = "git add"
    /\ \/ run' = [run EXCEPT !.gitCommands = Append(@, "add"), !.pc = "git commit"]
       \/ run' = GitError(run, "add", "add failed")
    /\ UNCHANGED << docs, files, cacheFile, ahead, nUploads, nOps, nEdits, parked >>

\* err.message of a failed git commit.
CommitMessage(outcome) ==
    IF outcome = "nothing" THEN "nothing to commit" ELSE "commit failed"

\* Mutant of AfterCommit: the test for "nothing to commit" is missing.
AfterCommitStrict(r, outcome) ==
    IF outcome = "ok"
    THEN [r EXCEPT !.gitCommands = Append(@, "commit"),
                   !.hasNewCommit = TRUE, !.pc = "git rev-list"]
    ELSE GitError(r, "commit", CommitMessage(outcome))

\* Where publish goes after git commit (lines 318-329): outcome is "ok", a
\* failure whose message includes "nothing to commit" ("nothing"), or any
\* other failure ("failed").
AfterCommit(r, outcome) ==
    CASE outcome = "ok" ->
            [r EXCEPT !.gitCommands = Append(@, "commit"),
                      !.hasNewCommit = TRUE, !.pc = "git rev-list"]
      [] outcome = "nothing" ->
            [r EXCEPT !.gitCommands = Append(@, "commit"), !.pc = "git rev-list"]
      [] OTHER -> GitError(r, "commit", CommitMessage(outcome))

GitCommit ==
    /\ run.pc = "git commit"
    /\ \/ /\ ahead < MaxAhead
          /\ ahead' = ahead + 1
          /\ run' = AfterCommit(run, "ok")
       \/ /\ run' = AfterCommit(run, "nothing")
          /\ UNCHANGED ahead
       \/ /\ run' = AfterCommit(run, "failed")
          /\ UNCHANGED ahead
    /\ UNCHANGED << docs, files, cacheFile, nUploads, nOps, nEdits, parked >>

\* parseInt(aheadOut.trim()) || 0 of the count git prints.
ParseAhead(stdout) == IF stdout \in Nat THEN stdout ELSE 0

\* ahead > 0 || hasNewCommit (line 336).
ShouldPush(count, hasNewCommit) == count > 0 \/ hasNewCommit

\* git rev-list --count @{u}..HEAD and the decision to push (lines 333-344).
GitRevList ==
    /\ run.pc = "git rev-list"
    /\ \/ run' = IF ShouldPush(ParseAhead(ahead), run.hasNewCommit)
                 THEN [run EXCEPT !.gitCommands = Append(@, "rev-list"),
                                  !.aheadCount = ParseAhead(ahead),
                                  !.pc = "git push"]
                 ELSE [run EXCEPT !.gitCommands = Append(@, "rev-list"),
                                  !.aheadCount = ParseAhead(ahead),
                                  !.pc = "done", !.gitResult = "no-changes"]
       \/ run' = GitError(run, "rev-list", "rev-list failed")
    /\ UNCHANGED << docs, files, cacheFile, ahead, nUploads, nOps, nEdits, parked >>

\* git push (lines 337-340).
GitPush ==
    /\ run.pc = "git push"
    /\ \/ /\ run' = [run EXCEPT !.gitCommands = Append(@, "push"),
                                !.pc = "done", !.gitResult = "success"]
          /\ ahead' = 0
       \/ /\ run' = GitError(run, "push", "push failed")
          /\ UNCHANGED ahead
    /\ UNCHANGED << docs, files, cacheFile, nUploads, nOps, nEdits, parked >>

\* ------------------------------------------------------------ environment

\* What a media file can be.
FileStates == { NoFile, Unreadable } \cup Contents

\* Between two operations the author replaces, adds or deletes a media file,
\* or makes it unreadable.
EditMedia ==
    /\ run.pc \in { "done", "threw" }
    /\ nEdits < MaxEdits
    /\ \E path \in DOMAIN files, bytes \in FileStates :
          /\ bytes # files[path]
          /\ files' = [files EXCEPT ![path] = bytes]
    /\ run' = [run EXCEPT !.pc = "idle"]
    /\ nEdits' = nEdits + 1
    /\ UNCHANGED << docs, cacheFile, ahead, nUploads, nOps, parked >>

\* The same happens to the file that is being uploaded, after syncMedia has
\* hashed it (line 182) and before the asset store has read it (line 141).
EditDuringUpload ==
    /\ run.pc = "uploading"
    /\ nEdits < MaxEdits
    /\ \E bytes \in FileStates :
          /\ bytes # files[run.references[run.i]]
          /\ files' = [files EXCEPT ![run.references[run.i]] = bytes]
    /\ run' = [run EXCEPT !.edited = TRUE]
    /\ nEdits' = nEdits + 1
    /\ UNCHANGED << docs, cacheFile, ahead, nUploads, nOps, parked >>

\* The process is terminated while syncMedia is in its loop.
Terminate ==
    /\ run.pc \in { "sync", "uploading" }
    /\ nEdits < MaxEdits
    /\ run' = [run EXCEPT !.pc = "killed"]
    /\ nEdits' = nEdits + 1
    /\ UNCHANGED << docs, files, cacheFile, ahead, nUploads, nOps, parked >>

Next ==
    \/ CallSyncMedia
    \/ CallPublish
    \/ CallRewriteUrls
    \/ CallGetUrlMappings
    \/ SyncReference
    \/ UploadReturns
    \/ SyncReturns
    \/ PublishRewrites
    \/ GitAdd
    \/ GitCommit
    \/ GitRevList
    \/ GitPush
    \/ EditMedia
    \/ EditDuringUpload
    \/ Terminate

Spec == Init /\ [][Next]_vars

\* ------------------------------------------------------ publish, with fairness

\* One invocation of publish, from any state of the media library and of the
\* cache file, with commits of an earlier publish pushed or not.
InitLive ==
    /\ docs \in Corpora
    /\ files \in [Paths -> { NoFile } \cup { 1 }]
    /\ cacheFile \in InitialCacheFiles
    /\ ahead \in { 0, 1 }
    /\ nUploads = 0
    /\ run = IdleRun
    /\ nOps = MaxOps - 1
    /\ nEdits = 0
    /\ parked = IdleRun

\* publish is called, and the file that is being uploaded may change; every
\* upload and every git command that was started completes or fails, and
\* the synchronous code between two awaits runs on.
NextLive ==
    \/ CallPublish
    \/ SyncReference
    \/ UploadReturns
    \/ SyncReturns
    \/ PublishRewrites
    \/ GitAdd
    \/ GitCommit
    \/ GitRevList
    \/ GitPush
    \/ EditDuringUpload

SpecLive ==
    /\ InitLive
    /\ [][NextLive]_vars
    /\ WF_vars(SyncReference)
    /\ WF_vars(UploadReturns)
    /\ WF_vars(SyncReturns)
    /\ []<>(run.pc # "rewrite")   \* WF_vars(PublishRewrites): it is enabled
                                  \* exactly where run.pc = "rewrite"
    /\ WF_vars(GitAdd)
    /\ WF_vars(GitCommit)
    /\ WF_vars(GitRevList)
    /\ WF_vars(GitPush)

\* ------------------------------------------------- the scanner on its own

\* Documents with one reference to a.jpg in each of the five shapes, with all
\* five, with a reference to b.jpg, and without any.
ShapeDocs ==
    { << MDIMG >> \o MEDIA \o PathA \o << CLOSEPAREN >>,
      << MDIMG >> \o RELMEDIA \o PathA \o << CLOSEPAREN >>,
      << FRONTIMG >> \o MEDIA \o PathA \o << SPACE >>,
      << SRCATTR >> \o MEDIA \o PathA \o << QUOTE >>,
      << VIDEOTAG, SRCATTR >> \o MEDIA \o PathA \o << QUOTE, GT >>,
      << MDIMG >> \o MEDIA \o PathA \o << CLOSEPAREN, SPACE >>
         \o << MDIMG >> \o RELMEDIA \o PathA \o << CLOSEPAREN, SPACE >>
         \o << FRONTIMG >> \o MEDIA \o PathA \o << SPACE >>
         \o << SRCATTR >> \o MEDIA \o PathA \o << QUOTE, SPACE >>
         \o << VIDEOTAG, SRCATTR >> \o MEDIA \o PathA \o << QUOTE, GT >>,
      << MDIMG >> \o MEDIA \o PathB \o << CLOSEPAREN >>,
      DocPlain }

\* Two files of src/content: each in a category or in another directory,
\* each with a name that ends in ".md" or not.
ScanCorpora ==
    { << [type |-> t1, file |-> "one", md |-> m1, content |-> d1],
         [type |-> t2, file |-> "two", md |-> m2, content |-> d2] >> :
         << t1, t2 >> \in { "posts", "notes", "drafts" } \X { "posts", "notes", "drafts" },
         << m1, m2 >> \in BOOLEAN \X BOOLEAN,
         << d1, d2 >> \in ShapeDocs \X ShapeDocs }

InitScan ==
    /\ docs \in ScanCorpora
    /\ files = [p \in Paths |-> NoFile]
    /\ cacheFile = AbsentFile
    /\ ahead = 0
    /\ nUploads = 0
    /\ run = IdleRun
    /\ nOps = 0
    /\ nEdits = 0
    /\ parked = IdleRun

\* syncMedia is called and scans the corpus.
SpecScan == InitScan /\ [][CallSyncMedia]_vars

\* ------------------------------------------------------------ observations

\* Positions of the references with one of the given log lines.
WithStatus(status, lines) == { k \in 1..Len(status) : status[k] \in lines }

\* The .md documents of a corpus.
MdDocs(corpus) == { k \in 1..Len(corpus) : corpus[k].md }

\* Occurrences of "/media/<path>" in the .md documents of a corpus.
LocalOccurrences(corpus, path) ==
    SumSeq([k \in 1..Len(MdFiles(corpus)) |->
              Occurrences(corpus[MdFiles(corpus)[k]].content, MEDIA \o path)])

\* References to path that the patterns of the scanner find in the .md
\* documents of a corpus.
ReferencesTo(corpus, path) ==
    SumSeq([k \in 1..Len(MdFiles(corpus)) |->
              Cardinality({ j \in 1..Len(RefsOfDoc(corpus[MdFiles(corpus)[k]].content)) :
                              RefsOfDoc(corpus[MdFiles(corpus)[k]].content)[j] = path })])

\* A syncMedia call (not the one inside publish) has returned.
SyncDone == run.pc = "done" /\ run.op = "syncMedia"

\* The operation before this one was a syncMedia call, and nothing was
\* changed in between.
AfterSync == run.before.op = "syncMedia"

\* ----------------------------------------------------------------- claims

\* A real syncMedia call with force=false has returned, the operation before
\* it was a real syncMedia call with force=false, and no file was changed in
\* between.
TwoRealSyncs ==
    /\ SyncDone /\ ~run.dryRun /\ ~run.force
    /\ AfterSync /\ ~run.before.dryRun /\ ~run.before.force

\* The references at the given positions, in scan order.
RefsAt(references, positions) ==
    LET idx == SelectSeq([k \in 1..Len(references) |-> k],
                         LAMBDA k : k \in positions)
    IN  [j \in 1..Len(idx) |-> references[idx[j]]]

\* C1 as stated: the second of two successive real syncMedia runs with
\* force=false calls the Uploader zero times and reports every scanned
\* reference as skipped.
C1_SecondRunSkipsEverything ==
    TwoRealSyncs =>
        /\ run.uploaderCalls = << >>
        /\ run.results.uploaded = 0
        /\ run.results.skipped = run.results.scanned

\* C1 amended: the second run skips every reference the first run uploaded or
\* skipped, reports the missing files as failed again and calls the Uploader
\* exactly for the references whose upload failed in the first run; when the
\* first run had no failure it uploads nothing and skipped = scanned.
C1_SecondRunRetriesOnlyFailures ==
    TwoRealSyncs =>
        LET was == run.before.status
            now == run.status
        IN  /\ run.references = run.before.references
            /\ Len(now) = Len(was)
            /\ \A k \in 1..Len(was) :
                  /\ was[k] \in { "DONE", "CACHED" } => now[k] = "CACHED"
                  /\ was[k] = "MISSING" => now[k] = "MISSING"
                  /\ was[k] = "FAILED" => now[k] \in { "DONE", "FAILED" }
            /\ run.uploaderCalls
                 = RefsAt(run.references, WithStatus(was, { "FAILED" }))
            /\ run.before.results.failed = 0 =>
                  /\ run.uploaderCalls = << >>
                  /\ run.results.uploaded = 0
                  /\ run.results.skipped = run.results.scanned

\* C1 witness: a second run after a first run that uploaded something and had
\* no failure.
C1_Witness ==
    /\ TwoRealSyncs
    /\ run.before.results.failed = 0
    /\ run.before.results.uploaded >= 2
    /\ run.results.skipped = 3

\* The cache the operation loaded when it was called.
CacheAtCall == loadCache(run.atCall.cacheFile)

\* Reference k exists and the cache at the call held an entry for it, made
\* from other bytes (Modified) or from its current bytes (Unchanged).
Modified(k) ==
    LET path == run.references[k]
    IN  /\ existsSync(files, path)
        /\ HasEntry(CacheAtCall, path)
        /\ EntryOf(CacheAtCall, path).hash # getFileHash(files, path)

Unchanged(k) ==
    LET path == run.references[k]
    IN  /\ existsSync(files, path)
        /\ HasEntry(CacheAtCall, path)
        /\ EntryOf(CacheAtCall, path).hash = getFileHash(files, path)

\* A real syncMedia run with force=false has returned; when it was called,
\* reference k was cached and modified since, every other one cached and
\* unchanged.
OnlyModified(k) ==
    /\ SyncDone /\ ~run.dryRun /\ ~run.force
    /\ k \in 1..Len(run.references)
    /\ Modified(k)
    /\ \A j \in 1..Len(run.references) : j # k => Unchanged(j)

\* C2: when one cached file was modified and all others are cached and
\* unchanged, a real syncMedia run with force=false calls the Uploader once,
\* for that file; if the upload succeeds the persisted entry of the path
\* holds the hash of the new bytes and the URL the upload returned.
C2_OnlyModifiedFileUploaded ==
    \A k \in 1..Len(run.references) :
        OnlyModified(k) =>
            LET path == run.references[k]
                saved == loadCache(cacheFile)
            IN  /\ run.uploaderCalls = << path >>
                /\ run.status[k] \in { "DONE", "FAILED" }
                /\ run.status[k] = "DONE" =>
                      /\ run.results.uploaded = 1
                      /\ Len(run.results.uploads) = 1
                      /\ run.results.uploads[1].local = path
                      /\ HasEntry(saved, path)
                      /\ EntryOf(saved, path).hash = getFileHash(files, path)
                      /\ EntryOf(saved, path).url = run.results.uploads[1].remote

\* C2 witness: the modified file was uploaded again and its entry changed
\* hash and URL.
C2_Witness ==
    \E k \in 1..Len(run.references) :
        /\ OnlyModified(k)
        /\ run.status[k] = "DONE"
        /\ EntryOf(loadCache(cacheFile), run.references[k]).url
             # EntryOf(CacheAtCall, run.references[k]).url
        /\ EntryOf(loadCache(cacheFile), run.references[k]).hash
             # EntryOf(CacheAtCall, run.references[k]).hash

\* C3: while and after an operation runs with dryRun, the cache file and
\* every document are as they were when it was called, and the Uploader has
\* not been called (syncMedia with force true or false, rewriteUrls, and the
\* two as publish calls them).
C3_DryRunChangesNothing ==
    (run.dryRun /\ run.op \in { "syncMedia", "rewriteUrls", "publish" }) =>
        /\ cacheFile = run.atCall.cacheFile
        /\ docs = run.atCall.docs
        /\ run.uploaderCalls = << >>
        /\ run.pc # "uploading"

\* C3 witness: a dry rewriteUrls that counted replacements has returned,
\* right after a dry syncMedia with force that counted uploads.
C3_Witness ==
    /\ run.op = "rewriteUrls" /\ run.pc = "done" /\ run.dryRun
    /\ run.rewriteResults.urlsReplaced > 0
    /\ AfterSync /\ run.before.dryRun /\ run.before.force
    /\ run.before.results.uploaded > 0

\* A real syncMedia has returned that was called right after a dry one with
\* the same force.
RealSyncAfterDry ==
    /\ SyncDone /\ ~run.dryRun
    /\ AfterSync /\ run.before.dryRun /\ run.before.force = run.force

\* A real rewriteUrls has returned that was called right after a dry one.
RealRewriteAfterDry ==
    /\ run.op = "rewriteUrls" /\ run.pc = "done" /\ ~run.dryRun
    /\ run.before.op = "rewriteUrls" /\ run.before.dryRun

\* The documents the operation has changed since it was called.
DocsWritten ==
    { k \in 1..Len(docs) : docs[k] # run.atCall.docs[k] }

\* What the claims need of rewriteUrls' counts: the dry run's equal the real
\* run's, and filesModified is the number of documents written.
RewriteCountsMatch ==
    RealRewriteAfterDry =>
        /\ run.before.rewriteResults = run.rewriteResults
        /\ run.rewriteResults.filesModified = Cardinality(DocsWritten)

\* C4 as stated: the dry run's uploaded equals the real run's uploaded, and
\* the dry run's rewrite counts equal the real run's.
C4_DryCountsEqualRealCounts ==
    /\ RealSyncAfterDry => run.before.results.uploaded = run.results.uploaded
    /\ RewriteCountsMatch

\* C4 amended: the dry run's uploaded is the number of Uploader calls of the
\* real run, that is the real run's uploaded plus its failed uploads; the dry
\* run's rewrite counts equal the real run's, and filesModified is the number
\* of documents the real run writes.
C4_DryCountsEqualRealAttempts ==
    /\ RealSyncAfterDry =>
          /\ run.before.results.uploaded = Len(run.uploaderCalls)
          /\ run.before.results.uploaded
               = run.results.uploaded
                   + Cardinality(WithStatus(run.status, { "FAILED" }))
          /\ run.before.results.skipped = run.results.skipped
          /\ Cardinality(WithStatus(run.status, { "FAILED" })) = 0
                => run.before.results = [run.results EXCEPT !.uploads = << >>]
    /\ RewriteCountsMatch

\* C4 witness: a real run after a dry run, in which one upload failed and
\* another succeeded.
C4_Witness ==
    /\ RealSyncAfterDry
    /\ run.results.uploaded > 0
    /\ WithStatus(run.status, { "FAILED" }) # {}

\* A real rewriteUrls after a dry one wrote documents.
C4_RewriteCase ==
    /\ RealRewriteAfterDry
    /\ run.rewriteResults.filesModified > 0

\* Occurrences the loop over the cache entries replaces in one document,
\* from entry k on.
RECURSIVE ReplacedFrom(_, _, _)
ReplacedFrom(content, cache, k) ==
    IF k > Len(cache) THEN 0
    ELSE LET mediaPath == MEDIA \o cache[k].path
         IN  Occurrences(content, mediaPath)
               + ReplacedFrom(SplitJoin(content, mediaPath, << cache[k].url >>),
                              cache, k + 1)

\* Occurrences one pass of rewriteUrls replaces in the corpus.
OccurrencesReplaced(corpus, cache) ==
    SumSeq([k \in 1..Len(MdFiles(corpus)) |->
              ReplacedFrom(corpus[MdFiles(corpus)[k]].content, cache, 1)])

RewriteDone == run.op = "rewriteUrls" /\ run.pc = "done"

\* C5 as stated: urlsReplaced is the number of occurrences of cached
\* references that rewriteUrls replaces (two occurrences of one reference
\* in one document count 2), and a real run leaves no occurrence of a cached
\* reference.
C5_UrlsReplacedCountsOccurrences ==
    RewriteDone =>
        /\ run.rewriteResults.urlsReplaced
             = OccurrencesReplaced(run.atCall.docs, run.cache)
        /\ ~run.dryRun =>
              \A k \in 1..Len(run.cache) :
                  LocalOccurrences(docs, run.cache[k].path) = 0

\* What holds of the code instead: urlsReplaced counts, per document, the
\* cache entries with at least one occurrence.
C5_UrlsReplacedCountsEntries ==
    RewriteDone =>
        /\ run.rewriteResults.urlsReplaced
             = SumSeq([k \in 1..Len(MdFiles(run.atCall.docs)) |->
                  Cardinality({ e \in 1..Len(run.cache) :
                      RewriteFrom(run.atCall.docs[MdFiles(run.atCall.docs)[k]].content,
                                  run.cache, e).fileChanges
                        # RewriteFrom(run.atCall.docs[MdFiles(run.atCall.docs)[k]].content,
                                      run.cache, e + 1).fileChanges })])
        /\ run.rewriteResults.urlsReplaced
             <= OccurrencesReplaced(run.atCall.docs, run.cache)

\* ---- C6

PublishDone == run.op = "publish" /\ run.pc = "done"

Failed == WithStatus(run.status, { "MISSING", "FAILED" })

\* The error string of reference k is in syncResults.errors.
ErrorReported(k) ==
    \E e \in 1..Len(run.results.errors) :
        run.results.errors[e] =
            << IF run.status[k] = "MISSING" THEN "File not found" ELSE "Upload failed",
               run.references[k] >>

Without(cache, path) == SelectSeq(cache, LAMBDA e : e.path # path)

\* No occurrence of the reference was replaced: the documents refer to it as
\* often as when publish was called, and the rewrite results are those of a
\* cache without an entry for it.
NotRewritten(path) ==
    /\ ReferencesTo(docs, path) = ReferencesTo(run.atCall.docs, path)
    /\ run.rewriteResults
         = RewriteResultsOf(run.atCall.docs, Without(loadCache(cacheFile), path))

\* The reference form of some other cached path occurs within that of path.
Overlapped(cache, path) ==
    \E e \in 1..Len(cache) :
        cache[e].path # path /\ Includes(MEDIA \o path, MEDIA \o cache[e].path)

RealPublish == run.op = "publish" /\ ~run.dryRun /\ run.pc # "idle"

\* C7: a real publish is not stopped by failed references: whatever the sync
\* stage reported, once past the rewrite stage every document has been
\* walked and no occurrence of a reference uploaded in this publish is left,
\* and when publish has returned git add was run, and git commit too unless
\* git add itself failed.
C7_FailedReferencesDoNotStopPublish ==
    RealPublish =>
        /\ run.pc \in { "git add", "git commit", "git rev-list", "git push", "done" } =>
              /\ run.rewriteResults.filesScanned = Len(MdFiles(run.atCall.docs))
              /\ \A k \in WithStatus(run.status, { "DONE" }) :
                    LocalOccurrences(docs, run.references[k]) = 0
        /\ run.pc = "done" =>
              /\ Len(run.gitCommands) >= 1
              /\ run.gitCommands[1] = "add"
              /\ run.error # "add failed" =>
                    Len(run.gitCommands) >= 2 /\ run.gitCommands[2] = "commit"

\* C7 witness: a real publish has returned in which one reference failed,
\* another was uploaded and rewritten, and git commit was run.
C7_Witness ==
    /\ RealPublish /\ run.pc = "done"
    /\ Failed # {}
    /\ \E k \in WithStatus(run.status, { "DONE" }) :
          LocalOccurrences(run.atCall.docs, run.references[k]) > 0
    /\ run.rewriteResults.filesModified > 0
    /\ Len(run.gitCommands) >= 2

\* ---- C8

\* git commit was run in this publish and failed with a message that
\* includes "nothing to commit".
NothingToCommit ==
    /\ RealPublish
    /\ Len(run.gitCommands) >= 2
    /\ ~run.hasNewCommit
    /\ run.error # "commit failed"

\* C8: after "nothing to commit" publish reports no error for the commit and
\* runs the ahead count; when the count is 0 it returns 'no-changes' without
\* a push; when the count is positive it pushes, and returns 'success' when
\* the push succeeds.
C8_NothingToCommitIsNoError ==
    NothingToCommit =>
        /\ run.pc \in { "git rev-list", "git push", "done" }
        /\ run.error \in { "none", "rev-list failed", "push failed" }
        /\ run.pc = "done" =>
              /\ Len(run.gitCommands) >= 3
              /\ run.gitCommands[3] = "rev-list"
              /\ run.gitResult \in { "no-changes", "success", "error" }
              /\ run.gitResult = "error" <=> run.error # "none"
              /\ run.gitResult = "no-changes" =>
                    /\ run.gitCommands = << "add", "commit", "rev-list" >>
                    /\ run.aheadCount = 0
                    /\ ahead = 0
              /\ (run.error # "rev-list failed" /\ run.aheadCount = 0) =>
                    run.gitResult = "no-changes"
              /\ (run.error # "rev-list failed" /\ run.aheadCount > 0) =>
                    /\ run.gitCommands = << "add", "commit", "rev-list", "push" >>
                    /\ run.error = "none" => run.gitResult = "success" /\ ahead = 0

\* C8 witness: nothing to commit, commits of an earlier publish unpushed, and
\* the push succeeds.
C8_Witness ==
    /\ NothingToCommit /\ run.pc = "done"
    /\ run.aheadCount > 0
    /\ run.gitResult = "success"

\* The other case of C8: nothing to commit and nothing ahead.
C8_NoChangesCase ==
    /\ NothingToCommit /\ run.pc = "done"
    /\ run.gitResult = "no-changes"

\* ---- C9

\* A real publish has returned after git commit succeeded or had nothing to
\* commit.
PastCommit ==
    /\ RealPublish /\ run.pc = "done"
    /\ Len(run.gitCommands) >= 2
    /\ run.error \notin { "commit failed", "nothing to commit" }

Pushed == \E k \in 1..Len(run.gitCommands) : run.gitCommands[k] = "push"

\* C9 as stated: past the commit step, a push is run whenever a commit was
\* created or HEAD is ahead of its upstream; 'success' only after a push that
\* succeeded, 'no-changes' only when no commit was created and nothing is
\* ahead.
C9_PushWheneverSomethingToPush ==
    PastCommit =>
        /\ (run.hasNewCommit \/ ahead > 0) => Pushed
        /\ run.gitResult = "success" => Pushed /\ run.error = "none"
        /\ run.gitResult = "no-changes" => ~run.hasNewCommit /\ ahead = 0

\* What holds of the code instead: the same, provided the ahead count itself
\* did not fail.
C9_PushWheneverCounted ==
    PastCommit =>
        /\ (run.error # "rev-list failed" /\ (run.hasNewCommit \/ ahead > 0))
              => Pushed
        /\ run.gitResult = "success" => Pushed /\ run.error = "none"
        /\ run.gitResult = "no-changes" => ~run.hasNewCommit /\ ahead = 0

\* ---- C10

GitPlaces == { "git add", "git commit", "git rev-list", "git push" }

\* C10: a dry-run publish runs no git command, and returns gitResult = null
\* with the sync and rewrite results.
C10_DryPublishRunsNoGit ==
    (run.op = "publish" /\ run.dryRun /\ run.pc # "idle") =>
        /\ run.gitCommands = << >>
        /\ run.pc \notin GitPlaces
        /\ ~run.hasNewCommit
        /\ run.pc = "done" =>
              /\ run.gitResult = "null"
              /\ run.error = "none"
              /\ run.results.scanned = Len(run.references)
              /\ run.rewriteResults = RewriteResultsOf(run.atCall.docs, CacheAtCall)

\* C10 witness: a dry-run publish has returned that would upload and would
\* rewrite.
C10_Witness ==
    /\ run.op = "publish" /\ run.dryRun /\ run.pc = "done"
    /\ run.results.uploaded > 0
    /\ run.rewriteResults.urlsReplaced > 0

\* ---- C11

\* git add failed, git commit failed with a message without "nothing to
\* commit", or git push failed.
GitFailed ==
    /\ run.op = "publish" /\ ~run.dryRun /\ run.pc \notin { "idle", "killed" }
    /\ run.error \in { "add failed", "commit failed", "push failed" }

\* C11: a failure of git add, a commit failure that is not "nothing to
\* commit", or a push failure makes publish return gitResult = 'error' with
\* the failure text in error and with the results of the sync and rewrite
\* stages; after such a commit failure neither the ahead count nor a push is
\* run.
C11_GitFailureIsErrorOutcome ==
    GitFailed =>
        /\ run.pc = "done"
        /\ run.gitResult = "error"
        /\ run.results.scanned = Len(run.references)
        /\ Len(run.status) = Len(run.references)
        /\ run.results.uploaded = Cardinality(WithStatus(run.status, { "DONE" }))
        /\ run.results.failed
              = Cardinality(WithStatus(run.status, { "MISSING", "FAILED" }))
        /\ run.rewriteResults = RewriteResultsOf(run.atCall.docs, run.cache)
        /\ run.error = "add failed" => run.gitCommands = << "add" >>
        /\ run.error = "commit failed" => run.gitCommands = << "add", "commit" >>
        /\ run.error = "push failed" =>
              run.gitCommands = << "add", "commit", "rev-list", "push" >>

\* C11 witness: a publish that uploaded and rewrote, and whose commit failed.
C11_Witness ==
    /\ GitFailed /\ run.pc = "done"
    /\ run.error = "commit failed"
    /\ run.results.uploaded > 0
    /\ run.rewriteResults.urlsReplaced > 0

\* The other cases of C11: git add failed, git push failed.
C11_AddCase == GitFailed /\ run.pc = "done" /\ run.error = "add failed"

C11_PushCase == GitFailed /\ run.pc = "done" /\ run.error = "push failed"

\* ---- C12

\* A real syncMedia run, alone or as the first stage of publish, has
\* returned.
RealSyncReturned ==
    /\ ~run.dryRun
    /\ \/ run.op = "syncMedia" /\ run.pc = "done"
       \/ run.op = "publish"
            /\ run.pc \in { "rewrite", "git add", "git commit", "git rev-list",
                            "git push", "done" }

\* The call of uploadMedia for references[k] in this run.
CallFor(k) ==
    CHOOSE j \in 1..Len(run.uploaderCalls) : run.uploaderCalls[j] = run.references[k]

\* C12: when a real syncMedia run has returned, every reference it uploaded
\* has an entry in the persisted cache with the URL and the remote id the
\* asset store returned and the hash the run computed, whatever happened to
\* the other references.
C12_UploadedEntriesArePersisted ==
    RealSyncReturned =>
        /\ cacheFile.kind \in { "map", "null" }
        /\ \A k \in WithStatus(run.status, { "DONE" }) :
              LET path == run.references[k]
                  saved == loadCache(cacheFile)
              IN  /\ HasEntry(saved, path)
                  /\ EntryOf(saved, path).url = run.answers[CallFor(k)].url
                  /\ EntryOf(saved, path).public_id
                        = run.answers[CallFor(k)].public_id
                  /\ ~run.edited =>
                        EntryOf(saved, path).hash = getFileHash(files, path)

\* C12 witness: a run in which one upload succeeded, a later upload failed
\* and one file was missing.
C12_Witness ==
    /\ RealSyncReturned
    /\ \E k \in WithStatus(run.status, { "DONE" }) :
          \E f \in WithStatus(run.status, { "FAILED" }) : k < f
    /\ WithStatus(run.status, { "MISSING" }) # {}

\* ---- C13

\* syncMedia, alone or inside publish, has ended with a cache that is a
\* mapping.
SyncEnded ==
    /\ run.op \in { "syncMedia", "publish" }
    /\ ~run.cacheNull
    /\ \/ run.pc \in { "done", "rewrite", "git add", "git commit",
                       "git rev-list", "git push" }
       \/ run.pc = "threw" /\ run.gitCommands = << >>

\* Every reference was processed and every failure was recorded.
AllProcessed ==
    /\ Len(run.status) = Len(run.references)
    /\ run.results.failed
          = Cardinality(WithStatus(run.status, { "MISSING", "FAILED" }))
    /\ Len(run.results.errors) = run.results.failed

\* C13 as stated: a failure that concerns one reference (file missing, file
\* that cannot be read when it is hashed, upload failing) is recorded in the
\* result, the later references are processed, and syncMedia returns a
\* result instead of raising.
C13_PerItemFailuresDoNotInterrupt ==
    SyncEnded => run.pc # "threw" /\ AllProcessed

\* What holds of the code instead: the same for missing files and failing
\* uploads only.
C13_MissingAndFailedDoNotInterrupt ==
    (SyncEnded /\ run.error # "read failed") => run.pc # "threw" /\ AllProcessed

\* The case of C13 that fails: the file of a reference exists and cannot be
\* read, syncMedia ends with the exception of readFileSync and the
\* references after it are not processed.
C13_UnreadableCase ==
    /\ SyncEnded /\ run.pc = "threw" /\ run.error = "read failed"
    /\ Len(run.status) < Len(run.references) - 1

\* ---- C14

\* The entry of path in a cache, or none.
EntryOrNone(cache, path) ==
    IF HasEntry(cache, path) THEN << EntryOf(cache, path) >> ELSE << >>

\* The persisted cache has an entry of path with the hash of what the file
\* holds now.
CachedForCurrentContent(path) ==
    /\ HasEntry(loadCache(cacheFile), path)
    /\ EntryOf(loadCache(cacheFile), path).hash = getFileHash(files, path)

\* This run is a real syncMedia run with force=false that follows a real
\* syncMedia run, with no file changed since that one was called.
RetryRun ==
    /\ SyncDone /\ ~run.dryRun /\ ~run.force
    /\ AfterSync /\ ~run.before.dryRun

\* C14 as stated: a failed upload leaves the entry of its path as it was
\* before the run, the path has no cache entry for its current content, and
\* the next real run with force=false calls the Uploader for it again.
C14_FailedUploadIsRetried ==
    /\ (RealSyncReturned /\ ~run.edited) =>
          \A k \in WithStatus(run.status, { "FAILED" }) :
             /\ EntryOrNone(loadCache(cacheFile), run.references[k])
                   = EntryOrNone(CacheAtCall, run.references[k])
             /\ ~CachedForCurrentContent(run.references[k])
    /\ RetryRun =>
          \A k \in WithStatus(run.before.status, { "FAILED" }) :
             \E j \in 1..Len(run.uploaderCalls) :
                 run.uploaderCalls[j] = run.before.references[k]

\* C14 amended: a failed upload leaves the entry of its path as it was before
\* the run; when that run was made with force=false the path has no cache
\* entry for its current content and the next real run with force=false
\* calls the Uploader for it again.  After a failed upload of a run with
\* force=true an entry with the current hash, if there was one, is still
\* there.
C14_FailedUploadIsRetriedUnlessForced ==
    /\ (RealSyncReturned /\ ~run.edited) =>
          \A k \in WithStatus(run.status, { "FAILED" }) :
             /\ EntryOrNone(loadCache(cacheFile), run.references[k])
                   = EntryOrNone(CacheAtCall, run.references[k])
             /\ ~run.force => ~CachedForCurrentContent(run.references[k])
    /\ (RetryRun /\ ~run.before.force) =>
          \A k \in WithStatus(run.before.status, { "FAILED" }) :
             \E j \in 1..Len(run.uploaderCalls) :
                 run.uploaderCalls[j] = run.before.references[k]

\* C14 witness: the upload of a path failed in a run with force=false, and
\* the next run has called the Uploader for it again.
C14_Witness ==
    /\ RetryRun /\ ~run.before.force
    /\ \E k \in WithStatus(run.before.status, { "FAILED" }) :
          \E j \in 1..Len(run.uploaderCalls) :
              run.uploaderCalls[j] = run.before.references[k]

\* The case the amendment sets apart: the upload failed in a run with
\* force=true and the next run reports the path as cached.
C14_ForcedCase ==
    /\ RetryRun /\ run.before.force
    /\ \E k \in WithStatus(run.before.status, { "FAILED" }) :
          run.status[k] = "CACHED"

\* ---- C15

\* An operation was called with a cache file that is missing, cannot be
\* parsed, or holds null instead of a mapping.
NoMappingAtCall(kinds) ==
    /\ run.op \in { "syncMedia", "publish", "rewriteUrls", "getUrlMappings" }
    /\ run.pc \notin { "idle", "killed" }
    /\ run.atCall.cacheFile.kind \in kinds

\* The operation does what it does with an empty mapping: it does not end
\* with a TypeError, no reference is reported as cached, the cache a real
\* sync saves holds exactly the uploads of the run, nothing is rewritten and
\* the mappings are empty.
AsWithEmptyMapping ==
    /\ run.error # "TypeError"
    /\ WithStatus(run.status, { "CACHED" }) = {}
    /\ run.saves = 1 =>
          /\ cacheFile.kind = "map"
          /\ Len(loadCache(cacheFile)) = Len(run.results.uploads)
    /\ (run.op = "rewriteUrls" /\ run.pc = "done") =>
          /\ run.rewriteResults = RewriteResultsOf(run.atCall.docs, << >>)
          /\ docs = run.atCall.docs
    /\ (run.op = "getUrlMappings" /\ run.pc = "done") => run.mappings = << >>

\* C15 as stated: with a cache file that is missing, not parseable, or
\* parseable but not a mapping, syncMedia, rewriteUrls and getUrlMappings
\* behave as with an empty mapping and never fail because of the file.
C15_AnyCacheFileIsEmptyCache ==
    NoMappingAtCall({ "absent", "corrupt", "null" }) => AsWithEmptyMapping

\* What holds of the code instead: the same for a file that is missing or
\* that cannot be parsed.
C15_AbsentOrCorruptIsEmptyCache ==
    NoMappingAtCall({ "absent", "corrupt" }) => AsWithEmptyMapping

\* The cases of C15 that fail: the file holds null, and syncMedia,
\* rewriteUrls and getUrlMappings end with a TypeError.
C15_NullSyncCase ==
    /\ NoMappingAtCall({ "null" }) /\ run.op = "syncMedia"
    /\ run.pc = "threw" /\ run.error = "TypeError"

C15_NullRewriteCase ==
    /\ NoMappingAtCall({ "null" }) /\ run.op = "rewriteUrls"
    /\ run.pc = "threw" /\ run.error = "TypeError"

C15_NullMappingsCase ==
    /\ NoMappingAtCall({ "null" }) /\ run.op = "getUrlMappings"
    /\ run.pc = "threw" /\ run.error = "TypeError"

\* The case of C15 that holds: a file that cannot be parsed, and a real sync
\* that uploaded and saved a mapping.
C15_CorruptCase ==
    /\ NoMappingAtCall({ "corrupt" }) /\ SyncDone
    /\ run.saves = 1 /\ run.results.uploaded > 0

\* ---- C16

\* The paths that some pattern captures in some .md document of one of the
\* four categories.
Captured(corpus) ==
    UNION { Range(RefsOfDoc(corpus[k].content)) :
              k \in { j \in 1..Len(corpus) :
                        corpus[j].md /\ corpus[j].type \in Range(contentTypes) } }

\* The scan of this run has returned.
Scanned == run.op = "syncMedia" /\ run.pc = "sync" /\ run.i = 1

\* C16: the scanner returns every captured path exactly once, whatever the
\* number of patterns and documents that refer to it, and scanned is the
\* number of distinct paths.
C16_ScannerDeduplicates ==
    Scanned =>
        /\ Range(run.references) = Captured(docs)
        /\ \A j, k \in 1..Len(run.references) :
              run.references[j] = run.references[k] => j = k
        /\ run.results.scanned = Cardinality(Captured(docs))

\* C16 witness: a.jpg is referenced in all five shapes in one document and
\* once more in another, and scanned is 1.
C16_Witness ==
    /\ Scanned
    /\ Len(RefsOfDoc(docs[1].content)) >= 5
    /\ Len(RefsOfDoc(docs[2].content)) >= 1
    /\ docs[1].md /\ docs[2].md
    /\ docs[1].type = "posts" /\ docs[2].type = "notes"
    /\ run.references = << PathA >>
    /\ run.results.scanned = 1

\* ---- C17

\* The calls of uploadMedia of this run that returned a failure.
FailedCalls == { j \in 1..Len(run.answers) : ~run.answers[j].ok }

\* C17 as stated: uploadMedia returns a failure without calling the asset
\* store when the file is missing, and a failure when the store reports an
\* error, and the failure carries a reason that tells the two apart.
C17_FailureCarriesReason ==
    \A j \in FailedCalls :
        /\ run.answers[j].url = "none"
        /\ run.answers[j].reason
              = IF run.storeCalls[j] THEN "upload failed" ELSE "file missing"

\* What holds of the code instead: uploadMedia returns the same null in both
\* cases, and syncMedia records "Upload failed" for both.
C17_FailureIsBareNull ==
    \A j \in FailedCalls :
        /\ run.answers[j] = NullAnswer
        /\ \E k \in 1..Len(run.results.errors) :
              run.results.errors[k] = << "Upload failed", run.uploaderCalls[j] >>

\* The two cases of C17 in one run: a file that was deleted after syncMedia
\* saw it, and an upload the asset store refused.
C17_BothCases ==
    /\ \E j \in FailedCalls : ~run.storeCalls[j]
    /\ \E j \in FailedCalls : run.storeCalls[j]

\* ---- C18

InPublish == run.op = "publish" /\ run.pc \notin { "idle", "killed" }

\* publish is past its rewrite stage.
PastRewrite ==
    /\ InPublish
    /\ \/ run.pc \in GitPlaces
       \/ run.pc = "done"

\* C18: in publish, while the sync stage runs no document is written and no
\* git command is run; when the rewrite stage starts every reference has
\* been processed and, in a real run, the cache was saved; past the rewrite
\* stage the documents are those the rewrite of the saved cache produces, so
\* no occurrence of a reference uploaded in this publish is left, and only
\* then git commands are run.
C18_StagesRunInOrder ==
    InPublish =>
        /\ run.pc \in { "sync", "uploading" } =>
              /\ docs = run.atCall.docs
              /\ run.rewriteResults = NoRewrite
              /\ run.gitCommands = << >>
              /\ run.saves = 0
        /\ run.pc = "rewrite" =>
              /\ Len(run.status) = Len(run.references)
              /\ docs = run.atCall.docs
              /\ run.gitCommands = << >>
              /\ ~run.dryRun => run.saves = 1
              /\ (~run.dryRun /\ ~run.cacheNull) => cacheFile = saveCache(run.cache)
        /\ PastRewrite =>
              /\ Len(run.status) = Len(run.references)
              /\ run.rewriteResults
                    = RewriteResultsOf(run.atCall.docs, loadCache(cacheFile))
              /\ docs = RewrittenCorpus(run.atCall.docs, loadCache(cacheFile),
                                        run.dryRun)
              /\ ~run.dryRun =>
                    \A k \in WithStatus(run.status, { "DONE" }) :
                       /\ HasEntry(loadCache(cacheFile), run.references[k])
                       /\ LocalOccurrences(docs, run.references[k]) = 0
        /\ run.gitCommands # << >> => PastRewrite /\ ~run.dryRun

\* C18 witness: a real publish is about to run its first git command, and a
\* reference that had no cache entry when publish was called was uploaded
\* and is gone from the documents.
C18_Witness ==
    /\ InPublish /\ run.pc = "git add" /\ run.gitCommands = << >>
    /\ \E k \in WithStatus(run.status, { "DONE" }) :
          /\ ~HasEntry(CacheAtCall, run.references[k])
          /\ LocalOccurrences(run.atCall.docs, run.references[k]) > 0
          /\ LocalOccurrences(docs, run.references[k]) = 0

\* ---- C19

\* A real syncMedia run, alone or inside publish.
RealSync ==
    /\ run.op \in { "syncMedia", "publish" } /\ ~run.dryRun
    /\ run.pc # "idle"

\* C19: a real syncMedia run saves the cache once, after the last reference;
\* until then the cache file is what it was when the run was called, also
\* when the run is terminated, so that an upload of a terminated run has left
\* no entry and its reference is evaluated again by the next run.
C19_CacheSavedOnceAtTheEnd ==
    RealSync =>
        /\ run.saves \in { 0, 1 }
        /\ run.saves = 0 => cacheFile = run.atCall.cacheFile
        /\ run.pc \in { "sync", "uploading", "killed" } => run.saves = 0
        /\ run.saves = 1 => Len(run.status) = Len(run.references)
        /\ RealSyncReturned => run.saves = 1
        /\ run.pc = "killed" =>
              \A k \in WithStatus(run.status, { "DONE" }) :
                 EntryOrNone(loadCache(cacheFile), run.references[k])
                    = EntryOrNone(CacheAtCall, run.references[k])

\* C19 witness: a run is terminated after an upload that succeeded, and the
\* cache file has no entry for it.
C19_Witness ==
    /\ RealSync /\ run.pc = "killed"
    /\ \E k \in WithStatus(run.status, { "DONE" }) :
          /\ HasEntry(run.cache, run.references[k])
          /\ ~HasEntry(loadCache(cacheFile), run.references[k])

\* The other case of C19: a run that returned and saved once.
C19_SavedCase ==
    /\ RealSync /\ SyncDone /\ run.saves = 1
    /\ cacheFile # run.atCall.cacheFile

\* ---- C20

\* syncMedia has written cache entries in this run.
SyncWrote ==
    /\ run.op \in { "syncMedia", "publish" } /\ ~run.dryRun
    /\ run.pc # "idle"
    /\ WithStatus(run.status, { "DONE" }) # {}

\* The entry this run wrote for references[k] has the digest of the bytes
\* the asset store received for it.
HashOfUploadedBytes(k) ==
    /\ HasEntry(run.cache, run.references[k])
    /\ EntryOf(run.cache, run.references[k]).url = run.answers[CallFor(k)].url
    /\ EntryOf(run.cache, run.references[k]).hash
          = << "md5", run.answers[CallFor(k)].bytes >>

\* C20 as stated: every entry syncMedia writes has the digest of the bytes
\* that were uploaded, also when the file is changed between the hashing and
\* the upload.
C20_HashIsOfUploadedBytes ==
    SyncWrote =>
        \A k \in WithStatus(run.status, { "DONE" }) : HashOfUploadedBytes(k)

\* What holds of the code instead: the same when no file was changed while
\* the run was uploading.
C20_HashIsOfUploadedBytesIfNotEdited ==
    (SyncWrote /\ ~run.edited) =>
        \A k \in WithStatus(run.status, { "DONE" }) : HashOfUploadedBytes(k)

\* The case of C20 that fails: the file was replaced after it was hashed, the
\* new bytes were uploaded, and the entry has the digest of the old ones.
C20_EditedCase ==
    /\ SyncWrote /\ run.edited
    /\ \E k \in WithStatus(run.status, { "DONE" }) :
          /\ EntryOf(run.cache, run.references[k]).hash = << "md5", 1 >>
          /\ run.answers[CallFor(k)].bytes = 2

\* ---- C21

\* A real syncMedia run, alone or inside publish, is in its loop or past it.
InSync ==
    /\ run.op \in { "syncMedia", "publish" } /\ ~run.dryRun
    /\ run.pc \notin { "idle", "killed" }

\* The positions in references of the calls of uploadMedia, in call order.
CallPositions ==
    [j \in 1..Len(run.uploaderCalls) |->
        CHOOSE k \in 1..Len(run.references) :
            run.references[k] = run.uploaderCalls[j]]

\* The calls of uploadMedia that have not returned.
InFlight == Len(run.uploaderCalls) - Len(run.answers)

\* C21: in one syncMedia run at most one upload is in flight; uploads are
\* called in scan order; and when the upload of a reference is called, every
\* earlier reference has its log line, every earlier upload has returned,
\* and every earlier upload that succeeded has its entry in the in-memory
\* cache.
C21_UploadsAreSequential ==
    InSync =>
        /\ InFlight \in { 0, 1 }
        /\ InFlight = 1 <=> run.pc = "uploading"
        /\ \A j, k \in 1..Len(run.uploaderCalls) :
              j < k => CallPositions[j] < CallPositions[k]
        /\ run.pc = "uploading" =>
              /\ run.uploaderCalls[Len(run.uploaderCalls)] = run.references[run.i]
              /\ Len(run.status) = run.i - 1
        /\ (run.pc # "threw" \/ ~run.cacheNull) =>
              \A j \in 1..Len(run.answers) :
                 run.answers[j].ok =>
                    /\ HasEntry(run.cache, run.uploaderCalls[j])
                    /\ EntryOf(run.cache, run.uploaderCalls[j]).url
                          = run.answers[j].url

\* C21 witness: the third upload of a run is in flight after one upload that
\* succeeded and one that failed.
C21_Witness ==
    /\ InSync /\ run.pc = "uploading"
    /\ Len(run.uploaderCalls) = 3
    /\ Len(run.answers) = 2
    /\ run.answers[1].ok /\ ~run.answers[2].ok

\* ---- C22

\* The stage of publish a place of the code belongs to: 1 SYNCING,
\* 2 REWRITING, 3 COMMITTING, 4 ended with an outcome or an exception.
StageOf(pc) ==
    CASE pc \in { "sync", "uploading" } -> 1
      [] pc = "rewrite" -> 2
      [] pc \in { "git add", "git commit", "git rev-list", "git push" } -> 3
      [] pc \in { "done", "threw" } -> 4
      [] OTHER -> 0

\* A step of one publish invocation moves within a stage or to a later one:
\* from SYNCING to REWRITING or to an exception, from REWRITING to
\* COMMITTING in a real run, to the end in a dry run or by an exception, and
\* from COMMITTING to the end.
StageStep ==
    (/\ run.op = "publish" /\ run'.op = "publish" /\ nOps' = nOps
     /\ StageOf(run.pc) # 0 /\ StageOf(run'.pc) # 0
     /\ StageOf(run'.pc) # StageOf(run.pc))
    => \/ StageOf(run.pc) = 1 /\ StageOf(run'.pc) = 2
       \/ StageOf(run.pc) = 1 /\ run'.pc = "threw"
       \/ StageOf(run.pc) = 2 /\ StageOf(run'.pc) = 3 /\ ~run.dryRun
       \/ StageOf(run.pc) = 2 /\ run'.pc = "done" /\ run.dryRun
       \/ StageOf(run.pc) = 2 /\ run'.pc = "threw"
       \/ StageOf(run.pc) = 3 /\ run'.pc = "done"

PublishRunning == run.op = "publish" /\ StageOf(run.pc) \in { 1, 2, 3 }

PublishEnded == run.op = "publish" /\ StageOf(run.pc) = 4

\* C22: publish goes through SYNCING, REWRITING and, in a real run,
\* COMMITTING, in this order and each at most once, and when every upload
\* and every git command completes or fails every invocation ends with an
\* outcome or an exception.
C22_PublishIsLinearAndEnds ==
    /\ [][StageStep]_vars
    /\ PublishRunning ~> PublishEnded

\* C22 witness: a publish that went through every stage and pushed.
C22_Witness ==
    /\ PublishEnded /\ run.pc = "done"
    /\ run.gitCommands = << "add", "commit", "rev-list", "push" >>
    /\ run.results.uploaded > 0
    /\ run.rewriteResults.urlsReplaced > 0


\* -------------------------------------------------------------------- C23

\* rewriteUrls alone, over every two-file corpus of ScanCorpora and over
\* cache files that hold entries for none, one or both of the paths the
\* documents mention.
RewriteCacheFiles ==
    { AbsentFile,
      saveCache(<< >>),
      saveCache(<< [path |-> PathA, hash |-> << "md5", 1 >>, url |-> "u1",
                    public_id |-> PublicId(PathA)] >>),
      saveCache(<< [path |-> PathB, hash |-> << "md5", 1 >>, url |-> "u2",
                    public_id |-> PublicId(PathB)] >>),
      saveCache(<< [path |-> PathA, hash |-> << "md5", 1 >>, url |-> "u1",
                    public_id |-> PublicId(PathA)],
                   [path |-> PathB, hash |-> << "md5", 1 >>, url |-> "u2",
                    public_id |-> PublicId(PathB)] >>) }

InitRewrite ==
    /\ docs \in ScanCorpora
    /\ files = [p \in Paths |-> NoFile]
    /\ cacheFile \in RewriteCacheFiles
    /\ ahead = 0
    /\ nUploads = 0
    /\ run = IdleRun
    /\ nOps = 0
    /\ nEdits = 0
    /\ parked = IdleRun

SpecRewrite == InitRewrite /\ [][CallRewriteUrls]_vars

\* The documents rewriteUrls reads: .md files of the content categories.
Eligible(corpus) ==
    { k \in 1..Len(corpus) :
         corpus[k].md /\ corpus[k].type \in Range(contentTypes) }

\* Document k held, at the call, "/media/<path>" for a cached path.
HasOccurrence(k) ==
    \E j \in 1..Len(run.cache) :
       Includes(run.atCall.docs[k].content, MEDIA \o run.cache[j].path)

Matching == { k \in Eligible(run.atCall.docs) : HasOccurrence(k) }

\* C23: rewriteUrls writes a document if and only if it is a .md document
\* of a category and holds an occurrence of "/media/<path>" for a cached
\* path: every other document is identical afterwards, changes lists exactly
\* the matching documents, filesModified is their number and the length of
\* changes, and filesScanned is the number of .md documents of the
\* categories.  (In a dry run nothing is written and the counts are the
\* same.)
C23_RewriteWritesExactlyMatchingDocs ==
    RewriteDone =>
       LET old == run.atCall.docs
           res == run.rewriteResults
       IN  /\ \A k \in 1..Len(docs) :
                 /\ docs[k] # old[k] => k \in Matching /\ ~run.dryRun
                 /\ k \in Matching /\ ~run.dryRun
                       => docs[k].content # old[k].content
           /\ { res.changes[j].file : j \in 1..Len(res.changes) }
                 = { << old[k].type, old[k].file >> : k \in Matching }
           /\ res.filesModified = Cardinality(Matching)
           /\ res.filesModified = Len(res.changes)
           /\ res.filesScanned = Cardinality(Eligible(old))

\* A real pass that scanned two documents and wrote one of them.
C23_Witness ==
    /\ RewriteDone
    /\ ~run.dryRun
    /\ run.rewriteResults.filesScanned = 2
    /\ run.rewriteResults.filesModified = 1
    /\ \E k \in 1..Len(docs) :
          /\ docs[k] = run.atCall.docs[k]
          /\ docs[k].content # DocPlain
    /\ \E k \in 1..Len(docs) : docs[k] # run.atCall.docs[k]

\* -------------------------------------------------------------------- C24

ForcedSync == run.op = "syncMedia" /\ run.force /\ run.pc # "idle"

\* C24: with force = true no reference is skipped, at any point of the run.
\* At return, a real run has called the Uploader once for every reference
\* whose file existed at its turn, also when the cache held an entry with
\* the hash of the file, a dry run has counted every such reference in
\* uploaded, and a reference whose file is missing is reported as failed.
C24_ForceOverridesCache ==
    /\ ForcedSync =>
          /\ run.results.skipped = 0
          /\ WithStatus(run.status, { "CACHED" }) = { }
    /\ ForcedSync /\ SyncDone =>
          LET n == Len(run.references)
              missing == WithStatus(run.status, { "MISSING" })
          IN  /\ Len(run.status) = n
              /\ \A k \in 1..n :
                    /\ existsSync(files, run.references[k]) => k \notin missing
                    /\ ~run.edited /\ ~existsSync(files, run.references[k])
                          => k \in missing
              /\ \A k \in missing :
                    << "File not found", run.references[k] >>
                       \in Range(run.results.errors)
              /\ run.results.failed >= Cardinality(missing)
              /\ IF run.dryRun
                 THEN /\ run.uploaderCalls = << >>
                      /\ run.results.uploaded = n - Cardinality(missing)
                      /\ \A k \in 1..n :
                            k \notin missing => run.status[k] = "WOULD UPLOAD"
                 ELSE /\ Len(run.uploaderCalls) = n - Cardinality(missing)
                      /\ \A k \in 1..n :
                            k \notin missing
                               => run.references[k] \in Range(run.uploaderCalls)

\* A forced real run uploaded a file that the cache it loaded held with the
\* hash of the file, and reported another reference as missing.
C24_Witness ==
    /\ ForcedSync
    /\ SyncDone
    /\ ~run.dryRun
    /\ ~run.edited
    /\ WithStatus(run.status, { "MISSING" }) # { }
    /\ \E k \in 1..Len(run.references) :
          LET p == run.references[k]
              atCall == loadCache(run.atCall.cacheFile)
          IN  /\ existsSync(files, p)
              /\ HasEntry(atCall, p)
              /\ EntryOf(atCall, p).hash = getFileHash(files, p)
              /\ p \in Range(run.uploaderCalls)
              /\ run.status[k] = "DONE"

\* -------------------------------------------------------------------- C25

\* The syncMedia of this invocation (called directly or by publish) returned
\* its SyncResult.
SyncResultReturned ==
    /\ run.op \in { "syncMedia", "publish" }
    /\ run.pc \in { "done", "rewrite", "git add", "git commit",
                    "git rev-list", "git push" }

\* C25: the counters of SyncResult are consistent.  After every pass of the
\* loop, uploaded + skipped + failed is the number of references processed,
\* the number of error strings is failed, and the number of upload records
\* is uploaded in a real run and zero in a dry run; scanned is the number of
\* references.  At return every reference was processed, so
\* scanned = uploaded + skipped + failed.
C25_CountersAreConsistent ==
    /\ run.op \in { "syncMedia", "publish" } /\ run.pc # "idle" =>
          LET res == run.results
          IN  /\ res.scanned = Len(run.references)
              /\ res.uploaded + res.skipped + res.failed = Len(run.status)
              /\ Len(res.errors) = res.failed
              /\ Len(res.uploads) = IF run.dryRun THEN 0 ELSE res.uploaded
    /\ SyncResultReturned =>
          LET res == run.results
          IN  /\ res.scanned = res.uploaded + res.skipped + res.failed
              /\ Len(res.errors) = res.failed
              /\ ~run.dryRun => Len(res.uploads) = res.uploaded
              /\ run.dryRun => res.uploads = << >>

\* A real run returned with an upload, a skipped reference and a failure.
C25_Witness ==
    /\ SyncResultReturned
    /\ ~run.dryRun
    /\ run.results.uploaded > 0
    /\ run.results.skipped > 0
    /\ run.results.failed > 0

\* -------------------------------------------------------------------- C26

\* A corpus that uses the relative-traversal form: one document refers to
\* a.jpg as ../../../Media/a.jpg and to a.png as /media/a.png, another to
\* a.jpg as /media/a.jpg.
DocRelative == << MDIMG >> \o RELMEDIA \o PathA \o << CLOSEPAREN, SPACE >>
                  \o << MDIMG >> \o MEDIA \o PathAPng \o << CLOSEPAREN >>
DocAbsolute == << SRCATTR >> \o MEDIA \o PathA \o << QUOTE >>

MixedCorpora ==
    { << [type |-> "posts", file |-> "one", md |-> TRUE, content |-> DocRelative],
         [type |-> "posts", file |-> "two", md |-> TRUE, content |-> DocAbsolute] >>,
      << [type |-> "posts", file |-> "one", md |-> TRUE, content |-> DocRelative],
         [type |-> "posts", file |-> "plain", md |-> TRUE, content |-> DocPlain] >> }

InitMixed ==
    /\ docs \in MixedCorpora
    /\ files \in [MixedPaths -> { NoFile } \cup { 1 }]
    /\ cacheFile \in { AbsentFile, saveCache(<< >>) }
    /\ ahead = 0
    /\ nUploads = 0
    /\ run = IdleRun
    /\ nOps = 0
    /\ nEdits = 0
    /\ parked = IdleRun

\* Every operation of the module, over the second library and corpus.
SpecMixed == InitMixed /\ [][Next]_vars

\* A real publish is past its rewrite stage, every referenced file existed
\* and no upload failed.
PublishedAll ==
    /\ RealPublish
    /\ PastRewrite
    /\ ~run.edited
    /\ run.results.failed = 0
    /\ \A k \in 1..Len(run.references) : existsSync(files, run.references[k])

\* C26 as stated: after a real publish in which every referenced file exists
\* and every upload succeeds, a run of the scanner over the corpus returns
\* no reference, in whatever shape the references were written.
C26_NoLocalReferenceRemains ==
    PublishedAll => findMediaReferences(docs) = << >>

\* The case that violates it: a.jpg was uploaded and is in the cache, the
\* rewrite stage is over, and the scanner still returns a.jpg, from the
\* document that wrote it as ../../../Media/a.jpg.
C26_RelativeCase ==
    /\ PublishedAll
    /\ run.results.uploaded = run.results.scanned
    /\ HasEntry(run.cache, PathA)
    /\ PathA \in Range(findMediaReferences(docs))
    /\ \E k \in 1..Len(docs) :
          Includes(docs[k].content, RELMEDIA \o PathA)

\* -------------------------------------------------------------------- C27

\* p is a proper prefix of q.
IsProperPrefix(p, q) == Len(p) < Len(q) /\ SubSeq(q, 1, Len(p)) = p

\* A real pass of rewriteUrls is over, called directly or by publish; the
\* cache it loaded is run.cache.
RealRewriteDone ==
    \/ RewriteDone /\ ~run.dryRun
    \/ RealPublish /\ PastRewrite

\* Entry q of the cache was applied exactly to document k: every occurrence
\* of "/media/<q.path>" the document held at the call is now q's URL, and
\* the document has not gained the URL of entry p followed by the rest of
\* q's path.
ExactFor(k, p, q) ==
    LET old == run.atCall.docs[k].content
        new == docs[k].content
        rest == SubSeq(run.cache[q].path, Len(run.cache[p].path) + 1,
                       Len(run.cache[q].path))
        torn == << run.cache[p].url >> \o rest
    IN  /\ Occurrences(new, << run.cache[q].url >>)
             >= Occurrences(old, << run.cache[q].url >>)
                  + Occurrences(old, MEDIA \o run.cache[q].path)
        /\ Occurrences(new, torn) <= Occurrences(old, torn)

PrefixPairs ==
    { pq \in (1..Len(run.cache)) \X (1..Len(run.cache)) :
         IsProperPrefix(run.cache[pq[1]].path, run.cache[pq[2]].path) }

\* C27 as stated: when the cache holds entries for P and Q and P is a proper
\* prefix of Q, every occurrence of "/media/Q" is replaced by Q's URL, never
\* by P's URL followed by the rest of Q, whatever the order of the entries.
C27_PrefixPathsRewrittenExactly ==
    RealRewriteDone =>
       \A pq \in PrefixPairs :
          \A k \in Range(MdFiles(docs)) : ExactFor(k, pq[1], pq[2])

\* What holds of the code: the rewriting is exact when the entry of the
\* longer path comes before the entry of its prefix in the cache.
C27_ExactWhenLongerEntryFirst ==
    RealRewriteDone =>
       \A pq \in PrefixPairs :
          pq[2] < pq[1] =>
             \A k \in Range(MdFiles(docs)) : ExactFor(k, pq[1], pq[2])

\* The longer path's entry came first and its reference was rewritten.
C27_LongerFirstCase ==
    /\ RealRewriteDone
    /\ \E pq \in PrefixPairs :
          /\ pq[2] < pq[1]
          /\ \E k \in Range(MdFiles(docs)) :
                /\ Includes(run.atCall.docs[k].content, MEDIA \o run.cache[pq[2]].path)
                /\ Includes(docs[k].content, << run.cache[pq[2]].url >>)

\* The case that violates C27: a.jpg's entry precedes a.jpg.webp's, and the
\* reference to a.jpg.webp has become a.jpg's URL followed by ".webp".
C27_TornCase ==
    /\ RealRewriteDone
    /\ \E pq \in PrefixPairs :
          /\ pq[1] < pq[2]
          /\ \E k \in Range(MdFiles(docs)) :
                /\ Includes(run.atCall.docs[k].content, MEDIA \o run.cache[pq[2]].path)
                /\ Includes(docs[k].content, << run.cache[pq[1]].url, ".webp" >>)
                /\ ~Includes(docs[k].content, << run.cache[pq[2]].url >>)

\* -------------------------------------------------------------------- C28

\* The options uploadMedia passes to the asset store for a local path
\* (lines 126-131).
uploadOptions(localPath) ==
    [public_id |-> PublicId(localPath),
     folder |-> "casey-site",
     overwrite |-> TRUE,
     resource_type |-> IF isVideoFile(localPath) THEN "video" ELSE "image"]

\* The calls of uploadMedia, in this invocation, that reached the asset
\* store.
StoreRequests == { j \in 1..Len(run.storeCalls) : run.storeCalls[j] }

\* C28 as stated: the remote identifier requested for an upload is a
\* function of the local path only, with overwrite enabled, and two
\* different local paths of the same asset kind are never uploaded under the
\* same remote identifier.
C28_DistinctPathsDistinctAssets ==
    run.pc # "idle" =>
       /\ \A j \in StoreRequests :
             /\ uploadOptions(run.uploaderCalls[j]).overwrite
             /\ run.answers[j].ok
                   => run.answers[j].public_id
                        = uploadOptions(run.uploaderCalls[j]).public_id
       /\ \A j, k \in StoreRequests :
             /\ run.uploaderCalls[j] # run.uploaderCalls[k]
             /\ uploadOptions(run.uploaderCalls[j]).resource_type
                  = uploadOptions(run.uploaderCalls[k]).resource_type
             => uploadOptions(run.uploaderCalls[j]).public_id
                  # uploadOptions(run.uploaderCalls[k]).public_id

\* The case that violates it: a.jpg and a.png were both uploaded as images
\* under casey-site/a in one run, the second upload overwriting the asset of
\* the first, and the cache holds both paths with that identifier.
C28_SharedAssetCase ==
    /\ SyncResultReturned
    /\ ~run.dryRun
    /\ run.results.uploaded = 2
    /\ HasEntry(run.cache, PathA)
    /\ HasEntry(run.cache, PathAPng)
    /\ EntryOf(run.cache, PathA).public_id = EntryOf(run.cache, PathAPng).public_id
    /\ EntryOf(run.cache, PathA).url # EntryOf(run.cache, PathAPng).url

\* -------------------------------------------------------------------- C29

\* The paths the persisted cache holds.
PersistedPaths(file) ==
    { loadCache(file)[k].path : k \in 1..Len(loadCache(file)) }

\* saveCache of line 220 is about to run: the loop of a real syncMedia run
\* is over.
AtRealSave ==
    /\ run.op \in { "syncMedia", "publish" }
    /\ run.pc = "sync"
    /\ run.i > Len(run.references)
    /\ ~run.dryRun

CacheStep ==
    /\ PersistedPaths(cacheFile) \subseteq PersistedPaths(cacheFile')
    /\ cacheFile' # cacheFile => AtRealSave

\* C29: the cache only grows.  No step of any operation removes a path from
\* the persisted cache, and the cache file changes only where a real
\* syncMedia run saves it; and a real rewriteUrls applies every entry of the
\* persisted cache, whether or not its path is still referenced and its file
\* still exists.
C29_CacheOnlyGrows ==
    /\ [][CacheStep]_vars
    /\ [](RewriteDone /\ ~run.dryRun =>
             /\ run.cache = loadCache(cacheFile)
             /\ \A p \in PersistedPaths(cacheFile) :
                   LocalOccurrences(docs, p) = 0)

\* A real syncMedia run has added an entry to a cache file that held, and
\* still holds, an entry whose path no document refers to any more and whose
\* file is not in the media library.
C29_Witness ==
    /\ SyncDone
    /\ ~run.dryRun
    /\ run.results.uploaded > 0
    /\ Len(loadCache(cacheFile)) > Len(loadCache(run.atCall.cacheFile))
    /\ \E p \in PersistedPaths(run.atCall.cacheFile) :
          /\ p \in PersistedPaths(cacheFile)
          /\ p \notin Range(run.references)
          /\ ~existsSync(files, p)

\* -------------------------------------------------------------------- C30

\* The HTTP handlers (part_008, lines 332-362) await syncMedia and publish,
\* so a second request can be served while the first is suspended at
\* `await uploadMedia(...)` (line 197).  Between two awaits an invocation
\* runs without interruption.

\* A second request arrives while the invocation in progress waits for its
\* upload: that one is parked, and the new one loads the cache and scans.
Overlap ==
    /\ run.pc = "uploading"
    /\ parked.pc = "idle"
    /\ nOps < MaxOps
    /\ \E op \in { "syncMedia", "publish" }, dryRun \in BOOLEAN :
          run' = StartSync(op, dryRun, FALSE)
    /\ parked' = run
    /\ nOps' = nOps + 1
    /\ UNCHANGED << docs, files, cacheFile, ahead, nUploads, nEdits >>

\* The event loop turns to the parked invocation, whose upload is about to
\* resolve, when the running one waits for its own upload or has returned.
Switch ==
    /\ parked.pc = "uploading"
    /\ run.pc \in { "uploading", "done", "threw" }
    /\ run' = parked
    /\ parked' = run
    /\ UNCHANGED << docs, files, cacheFile, ahead, nUploads, nOps, nEdits >>

InitOverlap ==
    /\ docs \in Corpora
    /\ files = [p \in Paths |-> IF p = PathAW THEN NoFile ELSE 1]
    /\ cacheFile \in { AbsentFile, saveCache(<< >>) }
    /\ ahead = 0
    /\ nUploads = 0
    /\ run = IdleRun
    /\ nOps = 0
    /\ nEdits = 0
    /\ parked = IdleRun

NextOverlap ==
    \/ CallSyncMedia
    \/ CallPublish
    \/ Overlap
    \/ Switch
    \/ SyncReference
    \/ UploadReturns
    \/ SyncReturns
    \/ PublishRewrites
    \/ GitAdd
    \/ GitCommit
    \/ GitRevList
    \/ GitPush

SpecOverlap == InitOverlap /\ [][NextOverlap]_vars

\* Two real invocations overlapped and both have returned.
BothFinished ==
    /\ run.pc = "done" /\ ~run.dryRun
    /\ parked.pc = "done" /\ ~parked.dryRun

\* The upload records either invocation returned.
ReportedUploads ==
    { run.results.uploads[k] : k \in 1..Len(run.results.uploads) }
       \cup { parked.results.uploads[k] : k \in 1..Len(parked.results.uploads) }

\* C30 as stated: after two overlapping runs have finished, the persisted
\* cache holds an entry for every upload that either run reported as
\* successful.
C30_OverlapLosesNoUpload ==
    BothFinished =>
       \A u \in ReportedUploads : HasEntry(loadCache(cacheFile), u.local)

\* C30 amended: the last writer wins.  After two overlapping real runs have
\* finished, the persisted cache is the in-memory cache of the run that
\* saved last: the cache that run loaded when it was called, with the
\* entries of its own successful uploads.  An upload of the other run is in
\* it only if the run that saved last holds the path too.
C30_LastWriterWins ==
    BothFinished =>
       /\ cacheFile = saveCache(run.cache)
       /\ \A k \in 1..Len(run.results.uploads) :
             /\ HasEntry(loadCache(cacheFile), run.results.uploads[k].local)
             /\ EntryOf(loadCache(cacheFile), run.results.uploads[k].local).url
                   = run.results.uploads[k].remote
       /\ \A p \in PersistedPaths(cacheFile) :
             \/ p \in PersistedPaths(run.atCall.cacheFile)
             \/ \E k \in 1..Len(run.results.uploads) :
                   run.results.uploads[k].local = p

\* Both runs returned, each with an upload the other did not make, and the
\* persisted cache lacks the upload of the run that saved first.
C30_Witness ==
    /\ BothFinished
    /\ \E u \in ReportedUploads : ~HasEntry(loadCache(cacheFile), u.local)
    /\ run.results.uploaded > 0
    /\ parked.results.uploaded > 0
=============================================================================
